---------------------------- MODULE Spec2Model ----------------------------
(***************************************************************************)
(* The MQTT ingestion pipeline of the motor dashboard                      *)
(* (iot_app/management/commands/run_mqtt_consumer.py): the per-metric      *)
(* deviation detector, the prediction anomaly tracker, the composite       *)
(* anomaly status and the snapshot broadcast, together with the            *)
(* acknowledge/delete endpoints of iot_app/views.py.                       *)
(*                                                                         *)
(* Time is counted in seconds.  MalfunctionLog, TwinData and LiveData      *)
(* carry timestamp = auto_now_add, so their rows are stamped with the wall *)
(* clock at creation whatever the payload says; ordering such rows by      *)
(* -timestamp is ordering them by creation, newest first.  The log table   *)
(* is therefore a sequence in creation order.                              *)
(***************************************************************************)
EXTENDS Integers, Sequences, FiniteSets, TLC

\* ------------------------------------------------------------------ bounds
MaxTicks == 1             \* clock steps
MaxLogs == 2              \* rows of the log table
MaxAbsValue == 32         \* |raw value|, |twin value| of SpecDetector
MaxMessages == 3          \* messages the broker delivers, SpecSequential
MaxMailbox == 2           \* group messages waiting on one channel, SpecDashboard
MaxSnapshotLogs == 6      \* rows of the log table, SpecSnapshot
MaxTrackerLogs == 3       \* rows of the log table, SpecSkipped

\* --------------------------------------------------------- program constants
PREDICTION_ERROR_THRESHOLD == 10
DATA_FRESHNESS_THRESHOLD_SECONDS == 10

\* Python None; numeric fields and timestamps are integers, so None is an
\* integer outside every value and time domain.
None == -1000
Metrics == {"current", "temperature", "torque"}
MetricOrder == <<"current", "temperature", "torque">>

\* The wall clock advances in steps of the freshness threshold: a row written
\* before a step has age >= threshold after it (stale, the boundary age
\* included), a row written after it has age 0 (fresh).
TickStep == DATA_FRESHNESS_THRESHOLD_SECONDS
MaxTime == MaxTicks * TickStep

Abs(x) == IF x < 0 THEN -x ELSE x

Range(s) == {s[i] : i \in 1..Len(s)}

\* ----------------------------------------------------------------- state
VARIABLES
    now,                      \* timezone.now(), seconds
    deviation_threshold,      \* self.deviation_threshold
    motor,                    \* MotorInfo.objects.first() is not None
    raw,                      \* latest RawData row per metric_type, or None
    twin,                     \* latest TwinData row, or None
    logs,                     \* MalfunctionLog table, in creation order
    last_anomaly_state,       \* Command.last_anomaly_state
    prediction_error_counts,  \* Command.prediction_error_counts
    error_active_flags,       \* Command.error_active_flags
    channel_layer,            \* get_channel_layer() is not None
    outbox,                   \* group_send calls made in the step just taken
    lastEvent,                \* the event of the step just taken
    transport,                \* the MQTT client: delivered messages and callbacks
    web                       \* the web side: view requests, dashboard connections

vars == <<now, deviation_threshold, motor, raw, twin, logs, last_anomaly_state,
          prediction_error_counts, error_active_flags, channel_layer, outbox,
          lastEvent, transport, web>>

\* dict.get(key, default)
Get(d, k, default) == IF k \in DOMAIN d THEN d[k] ELSE default

\* d[k] = v on a dict (adds the key when absent)
Put(d, k, v) == [x \in (DOMAIN d) \cup {k} |-> IF x = k THEN v ELSE d[x]]

\* ------------------------------------------------------ freshness evaluator
\* the comparison with <= for <
is_data_fresh_inclusive(data_object, threshold_seconds, t) ==
    IF data_object.timestamp # None
    THEN (t - data_object.timestamp) <= threshold_seconds
    ELSE FALSE

\* is_data_fresh(data_object, threshold_seconds) at wall clock t; an absent
\* row (NoRow, NoTwin) is the row without timestamp
is_data_fresh(data_object, threshold_seconds, t) ==
    IF data_object.timestamp # None
    THEN (t - data_object.timestamp) < threshold_seconds
    ELSE FALSE

\* -------------------------------------------------------- deviation detector
\* abs((raw_value - twin_value) / twin_value) * 100 is evaluated in IEEE-754
\* doubles.  For integer operands d = |raw - twin| and a = |twin| the result
\* differs from the exact d*100/a by at most a few ulps, which changes the
\* comparison with an integer threshold only where d*100/a is an integer equal
\* to the threshold.  These are the pairs <<d, a>> with a <= 40, d <= 80 whose
\* double result lies strictly above that integer (e.g. 7.0/25.0*100 =
\* 28.000000000000004); for every other pair the double is at or below it.
DoubleAboveExact ==
    { <<7, 25>>, <<11, 5>>, <<11, 10>>, <<11, 20>>, <<14, 25>>, <<22, 5>>,
      <<22, 10>>, <<22, 20>>, <<22, 40>>, <<28, 25>>, <<33, 15>>, <<33, 30>>,
      <<44, 5>>, <<44, 10>>, <<44, 20>>, <<44, 40>>, <<49, 5>>, <<49, 10>>,
      <<49, 20>>, <<55, 25>>, <<56, 25>>, <<66, 15>>, <<66, 30>>, <<77, 35>> }

\* deviation > deviation_threshold, for twin_value # 0
DeviationExceeds(raw_value, twin_value, threshold) ==
    LET d == Abs(raw_value - twin_value)
        a == Abs(twin_value)
    IN  \/ d * 100 > threshold * a
        \/ d * 100 = threshold * a /\ <<d, a>> \in DoubleAboveExact

\* is_currently_deviating of one metric
IsCurrentlyDeviating(raw_value, twin_value, threshold) ==
    IF raw_value # None /\ twin_value # None
    THEN IF twin_value # 0
         THEN DeviationExceeds(raw_value, twin_value, threshold)
         ELSE raw_value # 0 /\ twin_value = 0
    ELSE FALSE

\* ------------------------------------------------------------------- rows
\* the placeholder '-' of real_motor_data
Dash == -3000

\* No row: what .first() returns on an empty table
NoRow == [timestamp |-> None, value |-> None]
NoTwin == [timestamp |-> None, current |-> None, temp |-> None, torque |-> None]

\* RawData.objects.create(timestamp, metric_type, value)
RawRow(ts, v) == [timestamp |-> ts, value |-> v]

\* TwinData.objects.create(...): timestamp is auto_now_add
TwinRow(ts, c, te, to) == [timestamp |-> ts, current |-> c, temp |-> te, torque |-> to]

\* getattr(latest_twin_data, twin_metric_attr, None): 'temp' for temperature
TwinValue(tw, metric_name) ==
    CASE metric_name = "current" -> tw.current
      [] metric_name = "temperature" -> tw.temp
      [] metric_name = "torque" -> tw.torque

\* RawData.objects.filter(metric_type=m).order_by('-timestamp').first() after
\* inserting `new`: the row with the greatest timestamp.  A wall-clock
\* timestamp (implicit) is later than every earlier one; equal explicit
\* timestamps leave the order to the database.
LatestRawAfterInsert(old, new, implicit) ==
    IF old = NoRow \/ new.timestamp > old.timestamp THEN {new}
    ELSE IF new.timestamp < old.timestamp THEN {old}
    ELSE IF implicit THEN {new} ELSE {old, new}

\* --------------------------------------------------------- malfunction log
\* Descriptions are kept as tuples <<text, metric, numbers...>>
DeviationWarningText == "Abweichung erkannt"
DeviationResolvedText == "Abweichung behoben. Motor laeuft normal."
PredictionBadErrorText == "Vorhersage ist schlecht (-1) Mal in Folge"
PredictionBadWarningText == "Vorhersage ist schlecht (-1). Aufeinanderfolgende schlechte Vorhersagen"
PredictionResolvedText == "Anomalie behoben. Vorhersage ist wieder normal."
ExternalText == "extern"
ExternalPredictionText == "extern: Vorhersage ist schlecht"

\* MalfunctionLog.objects.create(...): acknowledged defaults to False
LogRow(message_type, description) ==
    [message_type |-> message_type, description |-> description,
     acknowledged |-> FALSE]

\* "Vorhersage ist schlecht" in description or "Vorhersage ist wieder normal" in description
is_prediction_related(description) ==
    description[1] \in {PredictionBadErrorText, PredictionBadWarningText,
                        PredictionResolvedText, ExternalPredictionText}

\* order_by('timestamp'): the rows of s in keep, oldest first
SelectOldestFirst(s, keep) == SelectSeq(s, LAMBDA l : l \in keep)

\* order_by('-timestamp'): the rows of s in keep, newest first
RECURSIVE SelectNewestFirst(_, _)
SelectNewestFirst(s, keep) ==
    IF s = << >> THEN << >>
    ELSE LET rest == SelectNewestFirst(SubSeq(s, 1, Len(s) - 1), keep)
         IN  IF s[Len(s)] \in keep THEN <<s[Len(s)]>> \o rest ELSE rest

\* the query with message_type='ERROR' alone
unacknowledged_errors(logsT) ==
    SelectNewestFirst(logsT, {l \in Range(logsT) :
        ~l.acknowledged /\ l.message_type = "ERROR"})

\* MalfunctionLog.objects.filter(acknowledged=False, message_type__in=
\* ['ERROR','WARNING']).order_by('-timestamp')
unacknowledged_errors_warnings(logsT) ==
    SelectNewestFirst(logsT, {l \in Range(logsT) :
        ~l.acknowledged /\ l.message_type \in {"ERROR", "WARNING"}})

\* MalfunctionLog.objects.filter(acknowledged=False).exclude(message_type=
\* 'INFO').order_by('-timestamp')[:5]
latest_unacknowledged_malfunction_logs(logsT) ==
    LET all == SelectNewestFirst(logsT, {l \in Range(logsT) :
                   ~l.acknowledged /\ l.message_type # "INFO"})
    IN  SubSeq(all, 1, IF Len(all) < 5 THEN Len(all) ELSE 5)

\* ------------------------------------------------------ anomaly aggregator
StaleMessage == <<"Unzureichende oder veraltete Daten fuer die Anomalieerkennung verfuegbar.">>
NormalMessage == <<"Motor laeuft normal.">>
DeviationMessage == <<"WARNUNG: Abweichung zwischen Live- und Twin-Daten erkannt.">>
PredictionMessage == <<"WARNUNG: Vorhersage-Anomalie erkannt.">>
CriticalMessage(description) == <<"KRITISCHE STOERUNG: ", description>>
WarningMessage(description) == <<"WARNUNG: ", description>>

\* the condition of step 1: a required input is missing or not fresh
InsufficientData(rawT, twinT, t) ==
    \/ rawT["current"] = NoRow \/ rawT["temperature"] = NoRow
    \/ rawT["torque"] = NoRow \/ twinT = NoTwin
    \/ ~is_data_fresh(rawT["current"], DATA_FRESHNESS_THRESHOLD_SECONDS, t)
    \/ ~is_data_fresh(rawT["temperature"], DATA_FRESHNESS_THRESHOLD_SECONDS, t)
    \/ ~is_data_fresh(rawT["torque"], DATA_FRESHNESS_THRESHOLD_SECONDS, t)
    \/ ~is_data_fresh(twinT, DATA_FRESHNESS_THRESHOLD_SECONDS, t)

\* is_currently_deviating of metric_name in the loop of step 2
MetricDeviating(rawT, twinT, metric_name, threshold) ==
    IsCurrentlyDeviating(rawT[metric_name].value, TwinValue(twinT, metric_name),
                         threshold)

\* the loop body without the test of the last state: a WARNING at every
\* deviating evaluation
DeviationLogRepeated(rawT, twinT, las, metric_name, threshold) ==
    IF MetricDeviating(rawT, twinT, metric_name, threshold)
    THEN <<LogRow("WARNING", <<DeviationWarningText, metric_name, threshold,
                               rawT[metric_name].value,
                               TwinValue(twinT, metric_name)>>)>>
    ELSE IF Get(las, metric_name, FALSE)
         THEN <<LogRow("INFO", <<DeviationResolvedText, metric_name>>)>>
         ELSE << >>

\* the log the loop of step 2 appends for metric_name: <<row>> or << >>
DeviationLog(rawT, twinT, las, metric_name, threshold) ==
    IF MetricDeviating(rawT, twinT, metric_name, threshold)
    THEN IF ~Get(las, metric_name, FALSE)
         THEN <<LogRow("WARNING", <<DeviationWarningText, metric_name, threshold,
                                    rawT[metric_name].value,
                                    TwinValue(twinT, metric_name)>>)>>
         ELSE << >>
    ELSE IF Get(las, metric_name, FALSE)
         THEN <<LogRow("INFO", <<DeviationResolvedText, metric_name>>)>>
         ELSE << >>

\* the loop body without the reset of the state on recovery
DeviationStateKept(rawT, twinT, las, metric_name, threshold) ==
    IF MetricDeviating(rawT, twinT, metric_name, threshold)
    THEN Put(las, metric_name, TRUE)
    ELSE las

\* last_anomaly_state after the loop body for metric_name
DeviationStateAfter(rawT, twinT, las, metric_name, threshold) ==
    IF MetricDeviating(rawT, twinT, metric_name, threshold)
    THEN IF ~Get(las, metric_name, FALSE) THEN Put(las, metric_name, TRUE) ELSE las
    ELSE IF Get(las, metric_name, FALSE) THEN Put(las, metric_name, FALSE) ELSE las

\* the loop over metrics_to_compare: [state |-> last_anomaly_state,
\* logs |-> logs_to_create, active |-> deviation_anomaly_active] after the
\* first k metrics
RECURSIVE DeviationLoop(_, _, _, _, _)
DeviationLoop(rawT, twinT, las, threshold, k) ==
    IF k = 0 THEN [state |-> las, logs |-> << >>, active |-> FALSE]
    ELSE LET before == DeviationLoop(rawT, twinT, las, threshold, k - 1)
             m == MetricOrder[k]
         IN  [state |-> DeviationStateAfter(rawT, twinT, before.state, m, threshold),
              logs |-> before.logs \o DeviationLog(rawT, twinT, before.state, m, threshold),
              active |-> before.active \/ MetricDeviating(rawT, twinT, m, threshold)]

\* step 3: any(error_active_flags.values()) or any(count > 0 ...)
PredictionAnomalyActive(flags, counts) ==
    \/ \E k \in DOMAIN flags : flags[k]
    \/ \E k \in DOMAIN counts : counts[k] > 0

\* step 4 without the filter on prediction rows
FirstEntry(entries, prediction_anomaly_active) ==
    IF entries = << >> THEN << >> ELSE <<Head(entries)>>

\* step 4 with `break` in place of `continue`: a skipped prediction row ends
\* the search
FirstRelevantStopsAtSkipped(entries, prediction_anomaly_active) ==
    IF entries = << >> THEN << >>
    ELSE IF is_prediction_related(Head(entries).description)
            /\ ~prediction_anomaly_active
         THEN << >>
         ELSE <<Head(entries)>>

\* step 4: the newest unacknowledged ERROR/WARNING row that is not a
\* prediction row of a resolved prediction anomaly; << >> when there is none
RECURSIVE FirstRelevant(_, _)
FirstRelevant(entries, prediction_anomaly_active) ==
    IF entries = << >> THEN << >>
    ELSE IF is_prediction_related(Head(entries).description)
            /\ ~prediction_anomaly_active
         THEN FirstRelevant(Tail(entries), prediction_anomaly_active)
         ELSE <<Head(entries)>>

active_malfunction_log_message(logsT, prediction_anomaly_active) ==
    FirstRelevant(unacknowledged_errors_warnings(logsT), prediction_anomaly_active)

\* step 5 with the prediction branch ahead of the deviation branch
AnomalyStatusPredictionFirst(insufficient, active_log, deviation_anomaly_active, prediction_anomaly_active) ==
    IF insufficient THEN [detected |-> TRUE, message |-> StaleMessage]
    ELSE IF active_log # << >>
    THEN [detected |-> TRUE,
          message |-> IF active_log[1].message_type = "ERROR"
                      THEN CriticalMessage(active_log[1].description)
                      ELSE WarningMessage(active_log[1].description)]
    ELSE IF prediction_anomaly_active
    THEN [detected |-> TRUE, message |-> PredictionMessage]
    ELSE IF deviation_anomaly_active
    THEN [detected |-> TRUE, message |-> DeviationMessage]
    ELSE [detected |-> FALSE, message |-> NormalMessage]

\* step 5 with the log branch ahead of the test for insufficient data
AnomalyStatusLogFirst(insufficient, active_log, deviation_anomaly_active, prediction_anomaly_active) ==
    IF active_log # << >>
    THEN [detected |-> TRUE,
          message |-> IF active_log[1].message_type = "ERROR"
                      THEN CriticalMessage(active_log[1].description)
                      ELSE WarningMessage(active_log[1].description)]
    ELSE IF insufficient THEN [detected |-> TRUE, message |-> StaleMessage]
    ELSE IF deviation_anomaly_active
    THEN [detected |-> TRUE, message |-> DeviationMessage]
    ELSE IF prediction_anomaly_active
    THEN [detected |-> TRUE, message |-> PredictionMessage]
    ELSE [detected |-> FALSE, message |-> NormalMessage]

\* step 5 (and step 1): anomaly_status of the snapshot
AnomalyStatus(insufficient, active_log, deviation_anomaly_active, prediction_anomaly_active) ==
    IF insufficient THEN [detected |-> TRUE, message |-> StaleMessage]
    ELSE IF active_log # << >>
    THEN [detected |-> TRUE,
          message |-> IF active_log[1].message_type = "ERROR"
                      THEN CriticalMessage(active_log[1].description)
                      ELSE WarningMessage(active_log[1].description)]
    ELSE IF deviation_anomaly_active
    THEN [detected |-> TRUE, message |-> DeviationMessage]
    ELSE IF prediction_anomaly_active
    THEN [detected |-> TRUE, message |-> PredictionMessage]
    ELSE [detected |-> FALSE, message |-> NormalMessage]

\* ------------------------------------------------------ fan-out broadcaster
PlotDataPoint == [message_type |-> "plot_data_point"]

\* a value field that shows the row's value whether the row is fresh or not
DisplayedValueUnchecked(data_object, value, placeholder, t) == value

\* `<value> if is_data_fresh(<row>, self.data_freshness_threshold) else
\* <placeholder>`
DisplayedValue(data_object, value, placeholder, t) ==
    IF is_data_fresh(data_object, DATA_FRESHNESS_THRESHOLD_SECONDS, t)
    THEN value ELSE placeholder

\* real_motor_data (the fields read from RawData), digital_twin_data and
\* raw_data of the message; the values of the model are whole numbers, which
\* _round_numeric_values_for_display leaves as they are
DashboardValues(rawT, twinT, t) ==
    [real_motor_data |->
         [m \in Metrics |-> DisplayedValue(rawT[m], rawT[m].value, Dash, t)],
     digital_twin_data |->
         [m \in Metrics |-> DisplayedValue(twinT, TwinValue(twinT, m), None, t)],
     raw_data |->
         [m \in Metrics |->
             [value |-> DisplayedValue(rawT[m], rawT[m].value, None, t),
              timestamp |-> rawT[m].timestamp]]]

DashboardUpdate(status, log_list, values) ==
    [message_type |-> "dashboard_update", anomaly_status |-> status,
     malfunction_logs |-> log_list,
     real_motor_data |-> values.real_motor_data,
     digital_twin_data |-> values.digital_twin_data,
     raw_data |-> values.raw_data]

\* _notify_dashboard_for_plot_data_point: the group_send calls it makes
NotifyPlotDataPoint == IF channel_layer THEN <<PlotDataPoint>> ELSE << >>

\* an aggregator that runs the deviation loop on stale rows: step 1 stops
\* the loop only when a required row is missing
ProcessAndNotifyNoShortCircuit(rawT, twinT, logsT, flags, counts, sent) ==
    IF ~channel_layer
    THEN /\ last_anomaly_state' = last_anomaly_state
         /\ logs' = logsT
         /\ outbox' = sent
    ELSE LET insufficient == InsufficientData(rawT, twinT, now)
             missing == \/ twinT = NoTwin
                        \/ \E m \in Metrics : rawT[m] = NoRow
             loop == IF missing
                     THEN [state |-> last_anomaly_state, logs |-> << >>,
                           active |-> FALSE]
                     ELSE DeviationLoop(rawT, twinT, last_anomaly_state,
                                        deviation_threshold, Len(MetricOrder))
             prediction_anomaly_active ==
                 PredictionAnomalyActive(flags, counts)
             active_log ==
                 active_malfunction_log_message(logsT, prediction_anomaly_active)
             status == AnomalyStatus(insufficient, active_log, loop.active,
                                     prediction_anomaly_active)
         IN  /\ last_anomaly_state' = loop.state
             /\ logs' = logsT \o loop.logs
             /\ outbox' = sent \o <<DashboardUpdate(status,
                                     latest_unacknowledged_malfunction_logs(logsT),
                                     DashboardValues(rawT, twinT, now))>>

\* an aggregator that evaluates the deviations without a channel layer and
\* only leaves out the group_send
ProcessAndNotifyWithoutChannel(rawT, twinT, logsT, flags, counts, sent) ==
    LET insufficient == InsufficientData(rawT, twinT, now)
        loop == IF insufficient
                THEN [state |-> last_anomaly_state, logs |-> << >>,
                      active |-> FALSE]
                ELSE DeviationLoop(rawT, twinT, last_anomaly_state,
                                   deviation_threshold, Len(MetricOrder))
        prediction_anomaly_active == PredictionAnomalyActive(flags, counts)
        active_log ==
            active_malfunction_log_message(logsT, prediction_anomaly_active)
        status == AnomalyStatus(insufficient, active_log, loop.active,
                                prediction_anomaly_active)
    IN  /\ last_anomaly_state' = loop.state
        /\ logs' = logsT \o loop.logs
        /\ outbox' = IF channel_layer
                     THEN sent \o <<DashboardUpdate(status,
                              latest_unacknowledged_malfunction_logs(logsT),
                                     DashboardValues(rawT, twinT, now))>>
                     ELSE sent

\* _process_and_notify_dashboard(deviation_threshold, last_anomaly_state) on
\* the tables rawT, twinT, logsT the handler has written and the tracker's
\* flags and counts; sent = the group_send calls the handler made before it
ProcessAndNotify(rawT, twinT, logsT, flags, counts, sent) ==
    IF ~channel_layer
    THEN /\ last_anomaly_state' = last_anomaly_state
         /\ logs' = logsT
         /\ outbox' = sent
    ELSE LET insufficient == InsufficientData(rawT, twinT, now)
             loop == IF insufficient
                     THEN [state |-> last_anomaly_state, logs |-> << >>,
                           active |-> FALSE]
                     ELSE DeviationLoop(rawT, twinT, last_anomaly_state,
                                        deviation_threshold, Len(MetricOrder))
             prediction_anomaly_active ==
                 PredictionAnomalyActive(flags, counts)
             active_log ==
                 active_malfunction_log_message(logsT, prediction_anomaly_active)
             status == AnomalyStatus(insufficient, active_log, loop.active,
                                     prediction_anomaly_active)
         IN  /\ last_anomaly_state' = loop.state
             /\ logs' = logsT \o loop.logs
             /\ outbox' = sent \o <<DashboardUpdate(status,
                                     latest_unacknowledged_malfunction_logs(logsT),
                                     DashboardValues(rawT, twinT, now))>>

\* ------------------------------------------------------------ the pipeline
\* payload.get('timestamp') is a string: make_aware_from_iso(...), else
\* timezone.now()
NoTimestamp == None
TimestampOf(payload_timestamp) ==
    IF payload_timestamp # NoTimestamp THEN payload_timestamp ELSE now

Event(kind) == [kind |-> kind, metric |-> "-", value |-> 0]
PredictionEvent(metric_type, prediction_value) ==
    [kind |-> "prediction", metric |-> metric_type, value |-> prediction_value]

\* _on_message_async returns before dispatch when no MotorInfo exists; a
\* failing write raises into its except clause.  Either way nothing changes.
Dropped(event) ==
    /\ outbox' = << >>
    /\ lastEvent' = event
    /\ UNCHANGED <<now, deviation_threshold, motor, raw, twin, logs,
                   last_anomaly_state, prediction_error_counts,
                   error_active_flags, channel_layer>>

\* raw/<metric_type> with payload {timestamp?, value}
HandleRaw(metric_type, value, payload_timestamp) ==
    IF ~motor \/ value = None
    THEN Dropped(Event("raw"))   \* value is NOT NULL: create() raises
    ELSE /\ \E latest \in LatestRawAfterInsert(raw[metric_type],
                              RawRow(TimestampOf(payload_timestamp), value),
                              payload_timestamp = NoTimestamp) :
               /\ raw' = [raw EXCEPT ![metric_type] = latest]
               /\ ProcessAndNotify(raw', twin, logs, error_active_flags,
                                   prediction_error_counts, NotifyPlotDataPoint)
         /\ lastEvent' = Event("raw")
         /\ UNCHANGED <<now, deviation_threshold, motor, twin,
                        prediction_error_counts, error_active_flags, channel_layer>>

\* a twin handler that notifies first and gives up without a channel layer
HandleTwinNotifyFirst(c, te, to) ==
    IF ~motor \/ ~channel_layer
    THEN Dropped(Event("twin"))
    ELSE /\ twin' = TwinRow(now, c, te, to)
         /\ ProcessAndNotify(raw, twin', logs, error_active_flags,
                             prediction_error_counts, NotifyPlotDataPoint)
         /\ lastEvent' = Event("twin")
         /\ UNCHANGED <<now, deviation_threshold, motor, raw,
                        prediction_error_counts, error_active_flags, channel_layer>>

\* the twin topic with payload {current?, temp?, torque?}
HandleTwin(c, te, to) ==
    IF ~motor
    THEN Dropped(Event("twin"))
    ELSE /\ twin' = TwinRow(now, c, te, to)
         /\ ProcessAndNotify(raw, twin', logs, error_active_flags,
                             prediction_error_counts, NotifyPlotDataPoint)
         /\ lastEvent' = Event("twin")
         /\ UNCHANGED <<now, deviation_threshold, motor, raw,
                        prediction_error_counts, error_active_flags, channel_layer>>

\* a malfunction topic (topic_type) with payload {message_type?, description}
NoMessageType == "absent"
\* a malfunction handler that takes the severity from the topic alone
HandleMalfunctionTopicOnly(topic_type, payload_message_type, description) ==
    IF ~motor
    THEN Dropped(Event("malfunction"))
    ELSE /\ ProcessAndNotify(raw, twin,
                             Append(logs, LogRow(topic_type, description)),
                             error_active_flags, prediction_error_counts, << >>)
         /\ lastEvent' = Event("malfunction")
         /\ UNCHANGED <<now, deviation_threshold, motor, raw, twin,
                        prediction_error_counts, error_active_flags,
                        channel_layer>>

\* a malfunction handler that also signals a new plot point
HandleMalfunctionWithPoint(topic_type, payload_message_type, description) ==
    IF ~motor
    THEN Dropped(Event("malfunction"))
    ELSE LET message_type == IF payload_message_type # NoMessageType
                             THEN payload_message_type ELSE topic_type
         IN  /\ ProcessAndNotify(raw, twin,
                                 Append(logs, LogRow(message_type, description)),
                                 error_active_flags, prediction_error_counts,
                                 NotifyPlotDataPoint)
             /\ lastEvent' = Event("malfunction")
             /\ UNCHANGED <<now, deviation_threshold, motor, raw, twin,
                            prediction_error_counts, error_active_flags,
                            channel_layer>>

HandleMalfunction(topic_type, payload_message_type, description) ==
    IF ~motor
    THEN Dropped(Event("malfunction"))
    ELSE LET message_type == IF payload_message_type # NoMessageType
                             THEN payload_message_type ELSE topic_type
         IN  /\ ProcessAndNotify(raw, twin,
                                 Append(logs, LogRow(message_type, description)),
                                 error_active_flags, prediction_error_counts, << >>)
             /\ lastEvent' = Event("malfunction")
             /\ UNCHANGED <<now, deviation_threshold, motor, raw, twin,
                            prediction_error_counts, error_active_flags,
                            channel_layer>>

\* ------------------------------------------------- prediction anomaly tracker
\* the columns of models.PredictionData
PredictionDataFields ==
    {"timestamp", "metric_type", "predicted_value", "anomaly_score", "rul_hours"}

\* PredictionData.objects.create(timestamp=, metric_type=, status_value=):
\* Model.__init__ raises TypeError on a keyword that is no field
SavePredictionSucceeds ==
    {"timestamp", "metric_type", "status_value"} \subseteq PredictionDataFields

\* the tracker with > for >= in the comparison with the threshold
TrackerStepLate(count, flag, metric_type, prediction_value) ==
    IF prediction_value = -1
    THEN IF flag
         THEN [count |-> count, flag |-> flag, logs |-> << >>]
         ELSE IF count + 1 > PREDICTION_ERROR_THRESHOLD
              THEN [count |-> 0, flag |-> TRUE,
                    logs |-> <<LogRow("ERROR", <<PredictionBadErrorText, metric_type,
                                                 PREDICTION_ERROR_THRESHOLD>>)>>]
              ELSE [count |-> count + 1, flag |-> flag,
                    logs |-> <<LogRow("WARNING", <<PredictionBadWarningText,
                                 metric_type, count + 1,
                                 PREDICTION_ERROR_THRESHOLD>>)>>]
    ELSE [count |-> 0, flag |-> FALSE,
          logs |-> IF count > 0 \/ flag
                   THEN <<LogRow("INFO", <<PredictionResolvedText, metric_type>>)>>
                   ELSE << >>]

\* the tracker without the reset of error_active_flags on a good prediction
TrackerStepFlagKept(count, flag, metric_type, prediction_value) ==
    IF prediction_value = -1
    THEN IF flag
         THEN [count |-> count, flag |-> flag, logs |-> << >>]
         ELSE IF count + 1 >= PREDICTION_ERROR_THRESHOLD
              THEN [count |-> 0, flag |-> TRUE,
                    logs |-> <<LogRow("ERROR", <<PredictionBadErrorText, metric_type,
                                                 PREDICTION_ERROR_THRESHOLD>>)>>]
              ELSE [count |-> count + 1, flag |-> flag,
                    logs |-> <<LogRow("WARNING", <<PredictionBadWarningText,
                                 metric_type, count + 1,
                                 PREDICTION_ERROR_THRESHOLD>>)>>]
    ELSE [count |-> 0, flag |-> flag,
          logs |-> IF count > 0 \/ flag
                   THEN <<LogRow("INFO", <<PredictionResolvedText, metric_type>>)>>
                   ELSE << >>]

\* a tracker that logs the progress WARNING on the message that reaches the
\* threshold as well
TrackerStepWarnsAtThreshold(count, flag, metric_type, prediction_value) ==
    IF prediction_value = -1
    THEN IF flag
         THEN [count |-> count, flag |-> flag, logs |-> << >>]
         ELSE IF count + 1 >= PREDICTION_ERROR_THRESHOLD
              THEN [count |-> 0, flag |-> TRUE,
                    logs |-> <<LogRow("WARNING", <<PredictionBadWarningText,
                                 metric_type, count + 1,
                                 PREDICTION_ERROR_THRESHOLD>>),
                               LogRow("ERROR", <<PredictionBadErrorText, metric_type,
                                                 PREDICTION_ERROR_THRESHOLD>>)>>]
              ELSE [count |-> count + 1, flag |-> flag,
                    logs |-> <<LogRow("WARNING", <<PredictionBadWarningText,
                                 metric_type, count + 1,
                                 PREDICTION_ERROR_THRESHOLD>>)>>]
    ELSE [count |-> 0, flag |-> FALSE,
          logs |-> IF count > 0 \/ flag
                   THEN <<LogRow("INFO", <<PredictionResolvedText, metric_type>>)>>
                   ELSE << >>]

\* the tracker of _handle_prediction_data: [count, flag, logs] of metric_type
\* after a message with payload value prediction_value
TrackerStep(count, flag, metric_type, prediction_value) ==
    IF prediction_value = -1
    THEN IF flag
         THEN [count |-> count, flag |-> flag, logs |-> << >>]
         ELSE IF count + 1 >= PREDICTION_ERROR_THRESHOLD
              THEN [count |-> 0, flag |-> TRUE,
                    logs |-> <<LogRow("ERROR", <<PredictionBadErrorText, metric_type,
                                                 PREDICTION_ERROR_THRESHOLD>>)>>]
              ELSE [count |-> count + 1, flag |-> flag,
                    logs |-> <<LogRow("WARNING", <<PredictionBadWarningText,
                                 metric_type, count + 1,
                                 PREDICTION_ERROR_THRESHOLD>>)>>]
    ELSE [count |-> 0, flag |-> FALSE,
          logs |-> IF count > 0 \/ flag
                   THEN <<LogRow("INFO", <<PredictionResolvedText, metric_type>>)>>
                   ELSE << >>]

\* a handler whose good prediction resets the counts of all metrics
HandlePredictionSharedReset(metric_type, prediction_value) ==
    IF ~motor
    THEN Dropped(PredictionEvent(metric_type, prediction_value))
    ELSE LET step == TrackerStep(prediction_error_counts[metric_type],
                                 error_active_flags[metric_type], metric_type,
                                 prediction_value)
             counts == IF prediction_value = -1
                       THEN [prediction_error_counts EXCEPT ![metric_type] = step.count]
                       ELSE [k \in DOMAIN prediction_error_counts |-> 0]
             flags == [error_active_flags EXCEPT ![metric_type] = step.flag]
         IN  /\ prediction_error_counts' = counts
             /\ error_active_flags' = flags
             /\ IF SavePredictionSucceeds
                THEN ProcessAndNotify(raw, twin, logs \o step.logs, flags, counts,
                                      NotifyPlotDataPoint)
                ELSE /\ logs' = logs \o step.logs
                     /\ outbox' = << >>
                     /\ UNCHANGED last_anomaly_state
             /\ lastEvent' = PredictionEvent(metric_type, prediction_value)
             /\ UNCHANGED <<now, deviation_threshold, motor, raw, twin, channel_layer>>

\* prediction/<metric_type> with payload {value}
HandlePrediction(metric_type, prediction_value) ==
    IF ~motor
    THEN Dropped(PredictionEvent(metric_type, prediction_value))
    ELSE LET step == TrackerStep(prediction_error_counts[metric_type],
                                 error_active_flags[metric_type], metric_type,
                                 prediction_value)
             counts == [prediction_error_counts EXCEPT ![metric_type] = step.count]
             flags == [error_active_flags EXCEPT ![metric_type] = step.flag]
         IN  /\ prediction_error_counts' = counts
             /\ error_active_flags' = flags
             /\ IF SavePredictionSucceeds
                THEN ProcessAndNotify(raw, twin, logs \o step.logs, flags, counts,
                                      NotifyPlotDataPoint)
                ELSE \* the TypeError ends the handling in _on_message_async
                     /\ logs' = logs \o step.logs
                     /\ outbox' = << >>
                     /\ UNCHANGED last_anomaly_state
             /\ lastEvent' = PredictionEvent(metric_type, prediction_value)
             /\ UNCHANGED <<now, deviation_threshold, motor, raw, twin, channel_layer>>

\* ------------------------------------------------------------- environment
\* the wall clock advances
Tick ==
    /\ now + TickStep <= MaxTime
    /\ now' = now + TickStep
    /\ outbox' = << >>
    /\ lastEvent' = Event("clock")
    /\ UNCHANGED <<deviation_threshold, motor, raw, twin, logs, last_anomaly_state,
                   prediction_error_counts, error_active_flags, channel_layer,
                   transport, web>>

\* an acknowledge view that also clears the error flag of the metric whose
\* prediction ERROR row it acknowledges
AcknowledgeLogClearsFlag(i) ==
    /\ i \in 1..Len(logs)
    /\ logs' = [logs EXCEPT ![i].acknowledged = TRUE]
    /\ error_active_flags' =
           IF /\ logs[i].message_type = "ERROR"
              /\ logs[i].description[1] = PredictionBadErrorText
           THEN [error_active_flags EXCEPT ![logs[i].description[2]] = FALSE]
           ELSE error_active_flags
    /\ outbox' = << >>
    /\ lastEvent' = Event("view")
    /\ UNCHANGED <<now, deviation_threshold, motor, raw, twin, last_anomaly_state,
                   prediction_error_counts, channel_layer>>

\* views.acknowledge_log(log_id)
AcknowledgeLog(i) ==
    /\ i \in 1..Len(logs)
    /\ logs' = [logs EXCEPT ![i].acknowledged = TRUE]
    /\ outbox' = << >>
    /\ lastEvent' = Event("view")
    /\ UNCHANGED <<now, deviation_threshold, motor, raw, twin, last_anomaly_state,
                   prediction_error_counts, error_active_flags, channel_layer>>

\* views.delete_log(log_id)
DeleteLog(i) ==
    /\ i \in 1..Len(logs)
    /\ logs' = SubSeq(logs, 1, i - 1) \o SubSeq(logs, i + 1, Len(logs))
    /\ outbox' = << >>
    /\ lastEvent' = Event("view")
    /\ UNCHANGED <<now, deviation_threshold, motor, raw, twin, last_anomaly_state,
                   prediction_error_counts, error_active_flags, channel_layer>>

\* a view between get_object_or_404 and save()/delete(): the instance it
\* loaded and the place of that row in the table now (0: the row is gone)
NoRequest == [pos |-> None, row |-> [message_type |-> "-", description |-> <<"-">>,
                                     acknowledged |-> FALSE]]

\* the WebSocket connections a browser may hold (DashboardConsumer instances)
Connections == {"c1", "c2"}

\* DashboardConsumer.__init__: live_mode_active = False; mailbox = the group
\* messages waiting on the connection's channel; client = the messages sent
\* to the browser in the step just taken
Closed == [open |-> FALSE, live_mode_active |-> FALSE, mailbox |-> << >>,
           client |-> << >>]

\* no view request in flight (one per view at a time), no connection, an
\* empty "iot_dashboard_group"
NoWeb ==
    [requests |-> [acknowledge |-> NoRequest, delete |-> NoRequest],
     group |-> {},
     connections |-> [c \in Connections |-> Closed]]

\* -------------------------------------------------------------- start-up
\* Command attributes and handle(): the keys 'current', 'temp', 'torque' of
\* last_anomaly_state and error_active_flags are set to False
InitMemory ==
    /\ last_anomaly_state = [k \in {"current", "temp", "torque"} |-> FALSE]
    /\ prediction_error_counts = [k \in {"temperature", "current", "torque"} |-> 0]
    /\ error_active_flags =
           [k \in {"temperature", "current", "torque", "temp"} |-> FALSE]

\* the client before any message: nothing delivered, no callback running
NoTraffic ==
    [queue |-> << >>, running |-> << >>, delivered |-> 0, handled |-> 0,
     stopped |-> FALSE, topic |-> "-",
     timestamp |-> [local |-> None, offset |-> None],
     message_type |-> NoMessageType]

\* --deviation_threshold 10, a configured motor, a channel layer and empty
\* data tables
Init ==
    /\ InitMemory
    /\ now = 0
    /\ deviation_threshold = 10
    /\ motor = TRUE
    /\ channel_layer = TRUE
    /\ raw = [m \in Metrics |-> NoRow]
    /\ twin = NoTwin
    /\ logs = << >>
    /\ outbox = << >>
    /\ lastEvent = Event("start")
    /\ transport = NoTraffic
    /\ web = NoWeb

\* ------------------------------------------- Spec: the deviation detector
\* Raw values are 20; a twin sample has every channel at 20 but at most one
\* at 10 (100 % off).  Log rows are deleted through views.delete_log.
TwinPayloads ==
    {p \in {10, 20} \X {10, 20} \X {10, 20} :
        Cardinality({i \in 1..3 : p[i] # 20}) <= 1}

RawMessage ==
    \E m \in Metrics :
        /\ HandleRaw(m, 20, NoTimestamp)
        /\ Len(logs') <= MaxLogs
        /\ UNCHANGED <<transport, web>>

TwinMessage ==
    \E p \in TwinPayloads :
        /\ HandleTwin(p[1], p[2], p[3])
        /\ Len(logs') <= MaxLogs
        /\ UNCHANGED <<transport, web>>

Delete == \E i \in 1..Len(logs) : DeleteLog(i) /\ UNCHANGED <<transport, web>>

Next ==
    \/ Tick
    \/ RawMessage
    \/ TwinMessage
    \/ Delete

Spec == Init /\ [][Next]_vars

\* ------------------------------------------------- SpecLog: the log table
\* Malfunction messages on the warning and error topics, acknowledged and
\* deleted through the views; the twin's current is 20 or 10.
TwinCurrentMessage ==
    \E c \in {10, 20} :
        /\ HandleTwin(c, 20, 20)
        /\ Len(logs') <= MaxLogs
        /\ UNCHANGED <<transport, web>>

MalfunctionMessage ==
    \E tt \in {"WARNING", "ERROR"} :
        /\ HandleMalfunction(tt, NoMessageType, <<ExternalText>>)
        /\ Len(logs') <= MaxLogs
        /\ UNCHANGED <<transport, web>>

Acknowledge == \E i \in 1..Len(logs) : AcknowledgeLog(i) /\ UNCHANGED <<transport, web>>

NextLog ==
    \/ Tick
    \/ RawMessage
    \/ TwinCurrentMessage
    \/ MalfunctionMessage
    \/ Acknowledge
    \/ Delete

SpecLog == Init /\ [][NextLog]_vars

\* ------------------------------------- SpecTracker: the prediction tracker
\* Prediction messages (-1 bad, 1 good) for current, with the deviation
\* detector, the malfunction topics and the clock around them.
PredictionTopicMessage ==
    \E v \in {-1, 1} :
        /\ HandlePrediction("current", v)
        /\ Len(logs') <= MaxLogs
        /\ UNCHANGED <<transport, web>>

NextTracker ==
    \/ Tick
    \/ RawMessage
    \/ TwinCurrentMessage
    \/ MalfunctionMessage
    \/ PredictionTopicMessage
    \/ Delete

SpecTracker == Init /\ [][NextTracker]_vars

\* ------------------------------------ SpecDetector: the detector's verdict
\* The latest raw current r and twin current t are drawn from
\* -MaxAbsValue..MaxAbsValue and the threshold from DeviationThresholds (the
\* 10 % of the end-to-end scenario, the 80 % of settings.py, and 28 %); the
\* other channels agree.  A raw message for another channel then runs the
\* evaluation on them.
DeviationThresholds == {10, 28, 80}
DetectorValues == (0 - MaxAbsValue)..MaxAbsValue

InitDetector ==
    /\ InitMemory
    /\ now = 0
    /\ deviation_threshold \in DeviationThresholds
    /\ motor = TRUE
    /\ channel_layer = TRUE
    /\ \E r \in DetectorValues :
           raw = [m \in Metrics |-> IF m = "current" THEN RawRow(0, r)
                                    ELSE RawRow(0, 20)]
    /\ \E t \in DetectorValues : twin = TwinRow(0, t, 20, 20)
    /\ logs = << >>
    /\ outbox = << >>
    /\ lastEvent = Event("start")
    /\ transport = NoTraffic
    /\ web = NoWeb

DetectorRawMessage ==
    \E m \in {"temperature", "torque"} :
        HandleRaw(m, 20, NoTimestamp) /\ UNCHANGED <<transport, web>>

NextDetector == DetectorRawMessage

SpecDetector == InitDetector /\ [][NextDetector]_vars

\* ------------------------------------------------------------ observations
\* the step just taken sent a snapshot to the dashboard group
Broadcast == \E i \in 1..Len(outbox) : outbox[i].message_type = "dashboard_update"

Snapshot ==
    outbox[CHOOSE i \in 1..Len(outbox) : outbox[i].message_type = "dashboard_update"]

\* a required input as §4.1 reads it: absent, or of age >= the threshold
Stale(row) ==
    row.timestamp = None \/ now - row.timestamp >= DATA_FRESHNESS_THRESHOLD_SECONDS

RequiredInputsFresh ==
    /\ \A m \in Metrics : ~Stale(raw[m])
    /\ ~Stale(twin)

\* the step just taken evaluated the detectors on fresh required inputs
Evaluated == Broadcast /\ RequiredInputsFresh

\* the rows a step adds to the log table
Created == SubSeq(logs', Len(logs) + 1, Len(logs'))

IsDeviationRow(l, m) ==
    /\ l.description[1] \in {DeviationWarningText, DeviationResolvedText}
    /\ l.description[2] = m

DeviationRows(rows, m) == SelectSeq(rows, LAMBDA l : IsDeviationRow(l, m))

DeviationWarning(m) ==
    LogRow("WARNING", <<DeviationWarningText, m, deviation_threshold,
                        raw[m].value, TwinValue(twin, m)>>)

DeviationResolved(m) == LogRow("INFO", <<DeviationResolvedText, m>>)

\* ------------------------------------------------------------------ claims
\* C1: at every evaluation on fresh required inputs at which a metric is
\* deviating, the metric's state is deviating afterwards, and the evaluation
\* creates exactly one WARNING deviation log for the metric when its state
\* was normal and no deviation log for it when its state was deviating
\* already.  Over a run of deviating evaluations this is one WARNING, at the
\* first of them.
C1_OneWarningWhileDeviating ==
    [][\A m \in Metrics :
          (Evaluated' /\ MetricDeviating(raw', twin', m, deviation_threshold'))
          => /\ Get(last_anomaly_state', m, FALSE)
             /\ DeviationRows(Created, m) =
                    IF Get(last_anomaly_state, m, FALSE) THEN << >>
                    ELSE <<DeviationWarning(m)'>>]_vars

\* a raw message re-evaluated current while it stays deviating: the snapshot
\* already lists its WARNING log, and the table holds that one row only
C1_Witness ==
    /\ Evaluated
    /\ lastEvent.kind = "raw"
    /\ MetricDeviating(raw, twin, "current", deviation_threshold)
    /\ last_anomaly_state["current"]
    /\ DeviationWarning("current") \in Range(Snapshot.malfunction_logs)
    /\ Len(DeviationRows(logs, "current")) = 1

\* C2: at every evaluation on fresh required inputs at which a metric is not
\* deviating, the metric's state is normal afterwards, and the evaluation
\* creates exactly one INFO 'deviation resolved' log for the metric when its
\* state was deviating and no deviation log for it when its state was normal.
C2_OneInfoOnRecovery ==
    [][\A m \in Metrics :
          (Evaluated' /\ ~MetricDeviating(raw', twin', m, deviation_threshold'))
          => /\ ~Get(last_anomaly_state', m, FALSE)
             /\ DeviationRows(Created, m) =
                    IF Get(last_anomaly_state, m, FALSE)
                    THEN <<DeviationResolved(m)>> ELSE << >>]_vars

\* a twin message brought temperature back: its state, set at the deviation,
\* is normal again and the table ends with the WARNING and the INFO row
C2_Witness ==
    /\ Evaluated
    /\ lastEvent.kind = "twin"
    /\ ~MetricDeviating(raw, twin, "temperature", deviation_threshold)
    /\ "temperature" \in DOMAIN last_anomaly_state
    /\ ~last_anomaly_state["temperature"]
    /\ Len(logs) = 2
    /\ logs[1].message_type = "WARNING" /\ IsDeviationRow(logs[1], "temperature")
    /\ logs[2] = DeviationResolved("temperature")

IsPredictionRow(l, m) ==
    /\ l.description[1] \in {PredictionBadErrorText, PredictionBadWarningText,
                             PredictionResolvedText}
    /\ l.description[2] = m

PredictionRows(rows, m) == SelectSeq(rows, LAMBDA l : IsPredictionRow(l, m))

PredictionWarning(m, count) ==
    LogRow("WARNING", <<PredictionBadWarningText, m, count, PREDICTION_ERROR_THRESHOLD>>)

PredictionError(m) ==
    LogRow("ERROR", <<PredictionBadErrorText, m, PREDICTION_ERROR_THRESHOLD>>)

PredictionResolved(m) == LogRow("INFO", <<PredictionResolvedText, m>>)

\* C3: the count of a metric without active error stays below the threshold.
\* A bad prediction for it creates a WARNING progress log and adds one to the
\* count while that leaves the count below 10; the bad prediction that would
\* make it 10 (the tenth in a row from a clean metric) creates the one ERROR
\* log, sets error_active and resets the count; a bad prediction for a metric
\* with active error creates no log and changes nothing, so nothing is logged
\* until a good prediction clears the flag.
C3_ErrorOnTenthBadPrediction ==
    /\ [](\A m \in Metrics :
             /\ prediction_error_counts[m] \in 0..(PREDICTION_ERROR_THRESHOLD - 1)
             /\ error_active_flags[m] => prediction_error_counts[m] = 0)
    /\ [][\A m \in Metrics :
             lastEvent' = PredictionEvent(m, -1)
             => IF error_active_flags[m]
                THEN /\ PredictionRows(Created, m) = << >>
                     /\ error_active_flags'[m]
                     /\ prediction_error_counts'[m] = prediction_error_counts[m]
                ELSE IF prediction_error_counts[m] = PREDICTION_ERROR_THRESHOLD - 1
                THEN /\ PredictionRows(Created, m) = <<PredictionError(m)>>
                     /\ error_active_flags'[m]
                     /\ prediction_error_counts'[m] = 0
                ELSE /\ PredictionRows(Created, m) =
                            <<PredictionWarning(m, prediction_error_counts[m] + 1)>>
                     /\ ~error_active_flags'[m]
                     /\ prediction_error_counts'[m] = prediction_error_counts[m] + 1]_vars

\* a bad prediction for current with the error active: the table holds the
\* ninth WARNING and the ERROR of the tenth message
C3_Witness ==
    /\ lastEvent = PredictionEvent("current", -1)
    /\ error_active_flags["current"]
    /\ prediction_error_counts["current"] = 0
    /\ logs = <<PredictionWarning("current", PREDICTION_ERROR_THRESHOLD - 1),
                PredictionError("current")>>

\* C4: a good prediction for a metric with count > 0 or active error creates
\* exactly one INFO 'anomaly resolved' log and leaves count 0 and the flag
\* false; for a clean metric it creates no log and leaves count and flag as
\* they were.
C4_GoodPredictionResets ==
    [][\A m \in Metrics :
          lastEvent' = PredictionEvent(m, 1)
          => /\ prediction_error_counts'[m] = 0
             /\ ~error_active_flags'[m]
             /\ PredictionRows(Created, m) =
                    IF prediction_error_counts[m] > 0 \/ error_active_flags[m]
                    THEN <<PredictionResolved(m)>> ELSE << >>]_vars

\* a good prediction for current after its ERROR: the INFO row follows it
C4_Witness ==
    /\ lastEvent = PredictionEvent("current", 1)
    /\ ~error_active_flags["current"]
    /\ prediction_error_counts["current"] = 0
    /\ logs = <<PredictionError("current"), PredictionResolved("current")>>

\* C5: every snapshot computed while a required input (the latest raw
\* current, temperature or torque row, or the latest twin row) is missing or
\* stale carries detected = true with the insufficient-data message.
C5_StaleDataDominates ==
    (Broadcast /\ ~RequiredInputsFresh)
    => Snapshot.anomaly_status = [detected |-> TRUE, message |-> StaleMessage]

\* an ERROR message arrives while the inputs are stale, current is in state
\* deviating and bad predictions are counted
C5_Witness ==
    /\ Broadcast
    /\ ~RequiredInputsFresh
    /\ \E i \in 1..Len(logs) : logs[i].message_type = "ERROR" /\ ~logs[i].acknowledged
    /\ last_anomaly_state["current"]
    /\ prediction_error_counts["current"] > 0
    /\ Snapshot.anomaly_status.message = StaleMessage

\* the unacknowledged ERROR and WARNING rows among rows, in creation order
Unacknowledged(rows) ==
    SelectSeq(rows, LAMBDA l : ~l.acknowledged /\ l.message_type \in {"ERROR", "WARNING"})

Newest(rows) == rows[Len(rows)]

\* the end-to-end scenario: a twin message is evaluated on fresh inputs with
\* raw current 20; temperature and torque are and were normal, and the log
\* table holds deviation rows of current only
ScenarioStep ==
    /\ lastEvent'.kind = "twin"
    /\ Evaluated'
    /\ deviation_threshold = 10
    /\ raw'["current"].value = 20
    /\ twin'.temp = 20 /\ twin'.torque = 20
    /\ ~Get(last_anomaly_state, "temperature", FALSE)
    /\ ~Get(last_anomaly_state, "torque", FALSE)
    /\ \A i \in 1..Len(logs) : IsDeviationRow(logs[i], "current")

ScenarioDeviates ==
    ScenarioStep /\ twin'.current = 10 /\ ~last_anomaly_state["current"]

ScenarioRecovers ==
    ScenarioStep /\ twin'.current = 20 /\ last_anomaly_state["current"]

IsWarningMessage(message) ==
    message = DeviationMessage \/ message[1] = WarningMessage(<< >>)[1]

\* C6 as stated: twin current 10 against raw current 20 leaves a WARNING
\* deviation log and is broadcast as detected with a WARNING message; twin
\* current 20 then creates the INFO log and is broadcast as not detected,
\* 'operating normally'.
C6_EndToEndAsStated ==
    [][/\ ScenarioDeviates
          => /\ DeviationWarning("current")' \in Range(logs')
             /\ Snapshot'.anomaly_status.detected
             /\ IsWarningMessage(Snapshot'.anomaly_status.message)
       /\ ScenarioRecovers
          => /\ Created = <<DeviationResolved("current")>>
             /\ Snapshot'.anomaly_status =
                    [detected |-> FALSE, message |-> NormalMessage]]_vars

\* C6, amended: twin current 10 against raw current 20 leaves a WARNING
\* deviation log and is broadcast as detected with a WARNING message; twin
\* current 20 then creates the INFO log, and its snapshot is detected with
\* 'WARNUNG: <description>' of the newest WARNING deviation log while one is
\* unacknowledged in the table, and not detected, 'operating normally', only
\* when none is left.
C6_EndToEndWarningLogPersists ==
    [][/\ ScenarioDeviates
          => /\ DeviationWarning("current")' \in Range(logs')
             /\ Snapshot'.anomaly_status.detected
             /\ IsWarningMessage(Snapshot'.anomaly_status.message)
       /\ ScenarioRecovers
          => /\ Created = <<DeviationResolved("current")>>
             /\ Snapshot'.anomaly_status =
                    IF Unacknowledged(logs) = << >>
                    THEN [detected |-> FALSE, message |-> NormalMessage]
                    ELSE [detected |-> TRUE,
                          message |-> WarningMessage(
                              Newest(Unacknowledged(logs)).description)]]_vars

\* twin current 20 after the deviation: the table holds the WARNING and the
\* INFO row, and the snapshot still carries the WARNING log's description
C6_Witness ==
    /\ Evaluated
    /\ lastEvent.kind = "twin"
    /\ twin.current = 20
    /\ logs = <<LogRow("WARNING", <<DeviationWarningText, "current", 10, 20, 10>>),
                DeviationResolved("current")>>
    /\ Snapshot.anomaly_status =
           [detected |-> TRUE,
            message |-> WarningMessage(<<DeviationWarningText, "current", 10, 20, 10>>)]

\* the log table as the evaluation of a step reads it: the handler's own row
\* is in it, the rows the evaluation creates are not
AtEvaluation ==
    IF lastEvent'.kind = "malfunction" THEN SubSeq(logs', 1, Len(logs) + 1) ELSE logs

AnyMetricDeviating ==
    \E m \in Metrics : MetricDeviating(raw, twin, m, deviation_threshold)

AnyPredictionAnomaly ==
    \E m \in Metrics : error_active_flags[m] \/ prediction_error_counts[m] > 0

\* "Vorhersage ist schlecht" in the description
IsBadPredictionRow(l) ==
    l.description[1] \in {PredictionBadErrorText, PredictionBadWarningText,
                          ExternalPredictionText}

\* the unacknowledged ERROR and WARNING rows that drive the status: all of
\* them while a prediction anomaly is active, else those that are no
\* prediction rows
Driving(rows) ==
    SelectSeq(Unacknowledged(rows),
              LAMBDA l : AnyPredictionAnomaly' \/ ~IsBadPredictionRow(l))

BothSeverities ==
    /\ \E i \in 1..Len(Unacknowledged(AtEvaluation)) :
           Unacknowledged(AtEvaluation)[i].message_type = "ERROR"
    /\ \E i \in 1..Len(Unacknowledged(AtEvaluation)) :
           Unacknowledged(AtEvaluation)[i].message_type = "WARNING"

NewestError(rows) ==
    Newest(SelectSeq(Unacknowledged(rows), LAMBDA l : l.message_type = "ERROR"))

\* C8 as stated: on fresh inputs, with an unacknowledged ERROR and an
\* unacknowledged WARNING log in the table, the message is the CRITICAL
\* message of the most recent unacknowledged ERROR log.
C8_ErrorOutranksWarningAsStated ==
    [][(Broadcast' /\ RequiredInputsFresh' /\ BothSeverities)
       => Snapshot'.anomaly_status.message =
              CriticalMessage(NewestError(AtEvaluation).description)]_vars

\* C8, amended: on fresh inputs, with an unacknowledged ERROR and an
\* unacknowledged WARNING log in the table, the snapshot is detected and its
\* message is built from the most recent of all unacknowledged ERROR and
\* WARNING logs: the CRITICAL message when that log is an ERROR, the WARNING
\* message when it is a WARNING, an older ERROR notwithstanding.
C8_NewestLogDecides ==
    [][(Broadcast' /\ RequiredInputsFresh' /\ BothSeverities)
       => Snapshot'.anomaly_status =
              [detected |-> TRUE,
               message |->
                   IF Newest(Unacknowledged(AtEvaluation)).message_type = "ERROR"
                   THEN CriticalMessage(Newest(Unacknowledged(AtEvaluation)).description)
                   ELSE WarningMessage(Newest(Unacknowledged(AtEvaluation)).description)]]_vars

\* a snapshot on fresh inputs whose log list has a WARNING above an older
\* ERROR, both unacknowledged, and whose message is the WARNING's
C8_Witness ==
    /\ Broadcast
    /\ RequiredInputsFresh
    /\ Len(Snapshot.malfunction_logs) = 2
    /\ Snapshot.malfunction_logs[1].message_type = "WARNING"
    /\ Snapshot.malfunction_logs[2].message_type = "ERROR"
    /\ Snapshot.anomaly_status.message =
           WarningMessage(Snapshot.malfunction_logs[1].description)

\* C9: on fresh inputs and with no unacknowledged ERROR or WARNING log
\* driving the status, a snapshot carries the generic deviation message when
\* some metric is deviating, a prediction anomaly or not, and the generic
\* prediction message, detected = true, when no metric is deviating and some
\* metric has error_active or a positive count.
C9_DeviationOutranksPrediction ==
    [][(Broadcast' /\ RequiredInputsFresh' /\ Driving(AtEvaluation) = << >>)
       => /\ AnyMetricDeviating'
             => Snapshot'.anomaly_status =
                    [detected |-> TRUE, message |-> DeviationMessage]
          /\ (~AnyMetricDeviating' /\ AnyPredictionAnomaly')
             => Snapshot'.anomaly_status =
                    [detected |-> TRUE, message |-> PredictionMessage]]_vars

\* current deviates while bad predictions are counted and no log is left:
\* the snapshot carries the deviation message
C9_Witness ==
    /\ Broadcast
    /\ RequiredInputsFresh
    /\ Snapshot.malfunction_logs = << >>
    /\ MetricDeviating(raw, twin, "current", deviation_threshold)
    /\ prediction_error_counts["current"] > 0
    /\ Snapshot.anomaly_status = [detected |-> TRUE, message |-> DeviationMessage]

\* the verdict of §4.2 in exact arithmetic, for present r and t
ReferenceDeviating(r, t, p) ==
    IF t # 0 THEN Abs(r - t) * 100 > p * Abs(t) ELSE r # 0

\* C10: after an evaluation on a present raw current r and twin current t
\* with threshold p, the state of current is the reference verdict:
\* deviating iff |r - t| * 100 > p * |t| when t # 0, deviating when t = 0 and
\* r # 0, not deviating when both are 0.
C10_VerdictEqualsReference ==
    Evaluated
    => Get(last_anomaly_state, "current", FALSE)
           = ReferenceDeviating(raw["current"].value, twin.current,
                                deviation_threshold)

\* ------------------------------------- SpecAbsent: a twin without a channel
\* Twin messages whose payload omits current (the column is nullable and is
\* stored as None) among twin messages with current 10 or 20.
TwinAbsentMessage ==
    \E c \in {None, 10, 20} :
        /\ HandleTwin(c, 20, 20)
        /\ Len(logs') <= MaxLogs
        /\ UNCHANGED <<transport, web>>

NextAbsent ==
    \/ Tick
    \/ RawMessage
    \/ TwinAbsentMessage
    \/ Delete

SpecAbsent == Init /\ [][NextAbsent]_vars

\* C11: at an evaluation on fresh required inputs in which the raw or the
\* twin value of a metric is absent, the metric is left out: its state is
\* what it was before and no deviation log is created for it.
C11_AbsentValueLeavesState ==
    [][\A m \in Metrics :
          (Evaluated' /\ (raw'[m].value = None \/ TwinValue(twin', m) = None))
          => /\ Get(last_anomaly_state', m, FALSE) = Get(last_anomaly_state, m, FALSE)
             /\ DeviationRows(Created, m) = << >>]_vars

\* ------------------------------------ SpecFresh: the freshness evaluator
\* At wall clock threshold + 1 each latest row is absent or has one of the
\* ages threshold + 1, threshold, threshold - 1 and 0; raw messages carry
\* such timestamps in their payload or none, twin rows are stamped now.
FreshNow == DATA_FRESHNESS_THRESHOLD_SECONDS + 1
SampleAges ==
    {DATA_FRESHNESS_THRESHOLD_SECONDS + 1, DATA_FRESHNESS_THRESHOLD_SECONDS,
     DATA_FRESHNESS_THRESHOLD_SECONDS - 1, 0}
SampleTimestamps == {FreshNow - age : age \in SampleAges}

InitFresh ==
    /\ InitMemory
    /\ now = FreshNow
    /\ deviation_threshold = 10
    /\ motor = TRUE
    /\ channel_layer = TRUE
    /\ raw \in [Metrics -> {NoRow} \cup {RawRow(ts, 20) : ts \in SampleTimestamps}]
    /\ twin \in {NoTwin} \cup {TwinRow(ts, 20, 20, 20) : ts \in SampleTimestamps}
    /\ logs = << >>
    /\ outbox = << >>
    /\ lastEvent = Event("start")
    /\ transport = NoTraffic
    /\ web = NoWeb

TimedRawMessage ==
    \E m \in Metrics, ts \in SampleTimestamps \cup {NoTimestamp} :
        HandleRaw(m, 20, ts) /\ UNCHANGED <<transport, web>>

NominalTwinMessage == HandleTwin(20, 20, 20) /\ UNCHANGED <<transport, web>>

NextFresh ==
    \/ TimedRawMessage
    \/ NominalTwinMessage

SpecFresh == InitFresh /\ [][NextFresh]_vars

\* C12: a snapshot carries the insufficient-data message iff some required
\* sample is absent or has now - timestamp >= threshold; so each sample is
\* fresh iff it is present and now - timestamp < threshold: stale at age
\* threshold and threshold + 1, fresh at threshold - 1.
C12_FreshIffYoungerThanThreshold ==
    Broadcast
    => ((Snapshot.anomaly_status.message = StaleMessage)
        <=> (\/ \E m \in Metrics : Stale(raw[m])
             \/ Stale(twin)))

\* a snapshot in which current is aged exactly the threshold, every other
\* sample is younger, and the data counts as insufficient
C12_Witness ==
    /\ Broadcast
    /\ now - raw["current"].timestamp = DATA_FRESHNESS_THRESHOLD_SECONDS
    /\ now - raw["temperature"].timestamp = DATA_FRESHNESS_THRESHOLD_SECONDS - 1
    /\ now - raw["torque"].timestamp = 0
    /\ now - twin.timestamp = DATA_FRESHNESS_THRESHOLD_SECONDS - 1
    /\ Snapshot.anomaly_status.message = StaleMessage

\* --------------------------- SpecSequential: the client loop and callbacks
\* client.loop_forever() reads the messages the broker delivers and calls
\* on_message = async_to_sync(_on_message_async) for each in the loop's own
\* thread; the call returns when the coroutine has finished.  A handler is
\* followed through its awaits: parse (json.loads, MotorInfo), persist
\* (_save_...), notify (plot point and snapshot).
SequentialMessages ==
    {[kind |-> "raw", metric |-> m, value |-> 20] : m \in Metrics}
        \cup {[kind |-> "twin", metric |-> "-", value |-> c] : c \in {10, 20}}

\* a handler that never blocks the loop (as a task scheduled per message)
LoopThreadFree == TRUE

\* the loop thread is not inside on_message
LoopThreadIdle == transport.running = << >>

Without(seq, i) == SubSeq(seq, 1, i - 1) \o SubSeq(seq, i + 1, Len(seq))

\* the broker delivers a message to the client's socket
Arrive ==
    /\ transport.delivered < MaxMessages
    /\ \E msg \in SequentialMessages :
           UNCHANGED web /\ transport' = [transport EXCEPT
               !.queue = Append(@, [id |-> transport.delivered + 1, msg |-> msg]),
               !.delivered = @ + 1]
    /\ outbox' = << >>
    /\ lastEvent' = Event("transport")
    /\ UNCHANGED <<now, deviation_threshold, motor, raw, twin, logs,
                   last_anomaly_state, prediction_error_counts,
                   error_active_flags, channel_layer>>

\* loop_forever takes the next message and enters on_message
OnMessage ==
    /\ LoopThreadIdle
    /\ transport.queue # << >>
    /\ UNCHANGED web /\ transport' = [transport EXCEPT
           !.queue = Tail(@),
           !.running = Append(@, [id |-> Head(transport.queue).id,
                                  msg |-> Head(transport.queue).msg,
                                  pc |-> "parse"])]
    /\ outbox' = << >>
    /\ lastEvent' = Event("transport")
    /\ UNCHANGED <<now, deviation_threshold, motor, raw, twin, logs,
                   last_anomaly_state, prediction_error_counts,
                   error_active_flags, channel_layer>>

\* json.loads and the MotorInfo test, then the dispatch on the topic
HandlerParse(i) ==
    /\ transport.running[i].pc = "parse"
    /\ UNCHANGED web /\ transport' = [transport EXCEPT !.running[i].pc = "persist"]
    /\ outbox' = << >>
    /\ lastEvent' = Event("transport")
    /\ UNCHANGED <<now, deviation_threshold, motor, raw, twin, logs,
                   last_anomaly_state, prediction_error_counts,
                   error_active_flags, channel_layer>>

\* await self._save_raw_data(...) / self._save_twin_data(...)
HandlerPersist(i) ==
    LET msg == transport.running[i].msg
    IN  /\ transport.running[i].pc = "persist"
        /\ IF msg.kind = "raw"
           THEN /\ raw' = [raw EXCEPT ![msg.metric] = RawRow(now, msg.value)]
                /\ twin' = twin
           ELSE /\ twin' = TwinRow(now, msg.value, 20, 20)
                /\ raw' = raw
        /\ UNCHANGED web /\ transport' = [transport EXCEPT !.running[i].pc = "notify"]
        /\ outbox' = << >>
        /\ lastEvent' = Event("transport")
        /\ UNCHANGED <<now, deviation_threshold, motor, logs, last_anomaly_state,
                       prediction_error_counts, error_active_flags, channel_layer>>

\* the two awaits that end the handler; on_message returns
HandlerNotify(i) ==
    /\ transport.running[i].pc = "notify"
    /\ ProcessAndNotify(raw, twin, logs, error_active_flags,
                        prediction_error_counts, NotifyPlotDataPoint)
    /\ Len(logs') <= MaxLogs
    /\ UNCHANGED web /\ transport' = [transport EXCEPT !.running = Without(@, i), !.handled = @ + 1]
    /\ lastEvent' = Event(transport.running[i].msg.kind)
    /\ UNCHANGED <<now, deviation_threshold, motor, raw, twin,
                   prediction_error_counts, error_active_flags, channel_layer>>

Parse == \E i \in 1..Len(transport.running) : HandlerParse(i)
Persist == \E i \in 1..Len(transport.running) : HandlerPersist(i)
Notify == \E i \in 1..Len(transport.running) : HandlerNotify(i)

NextSequential ==
    \/ Arrive
    \/ OnMessage
    \/ Parse
    \/ Persist
    \/ Notify

SpecSequential == Init /\ [][NextSequential]_vars

\* the ids of the messages in handling, then of those waiting
InHandlingThenWaiting ==
    [i \in 1..Len(transport.running) |-> transport.running[i].id]
        \o [i \in 1..Len(transport.queue) |-> transport.queue[i].id]

\* C13: at most one message is in handling at any time, and messages are
\* handled in delivery order: with n messages handled, the one in handling
\* and those waiting are messages n + 1, n + 2, ... in this order.
C13_OneMessageAtATime ==
    /\ Len(transport.running) <= 1
    /\ \A i \in 1..Len(InHandlingThenWaiting) :
           InHandlingThenWaiting[i] = transport.handled + i

\* the second message is at its last await while the third waits
C13_Witness ==
    /\ transport.handled = 1
    /\ Len(transport.running) = 1
    /\ transport.running[1].pc = "notify"
    /\ Len(transport.queue) = 1

\* C14: every dashboard_update snapshot lists the unacknowledged log entries
\* as they are after the handling that sent it, the entries that handling
\* created included.
C14_SnapshotAfterMutations ==
    [][Broadcast' =>
          Snapshot'.malfunction_logs = latest_unacknowledged_malfunction_logs(logs')]_vars

\* ----------------------------------------- SpecMalformed: payloads that are
\* no JSON object.  The body of a message is one of: bytes that are no UTF-8
\* text, text that is no JSON, JSON that is no object (a list, a number, a
\* string, null).
MalformedBodies == {"undecodable", "not_json", "not_object"}
Topics == {"twin", "malfunction", "raw", "prediction", "unknown"}

MalformedEvent(topic, body) == [kind |-> body, metric |-> topic, value |-> 0]

\* msg.payload.decode() in the f-string written to stdout before the try
PayloadDecodes(body) == body # "undecodable"

\* loop_forever is still reading messages
LoopRunning == ~transport.stopped

\* _on_message_async on a body of MalformedBodies.  The decode of the first
\* statement is outside the try: its UnicodeDecodeError leaves the callback,
\* loop_forever passes it on and handle() ends in its except clause.
\* json.loads raises JSONDecodeError inside the try; on JSON that is no
\* object the handler's first payload.get / 'message_type' not in payload
\* raises inside the try (or the message ends at `if not motor` or at the
\* unknown-topic branch): nothing was written.
OnMalformedPayload(topic, body) ==
    IF ~PayloadDecodes(body)
    THEN /\ UNCHANGED web /\ transport' = [transport EXCEPT !.stopped = TRUE]
         /\ Dropped(MalformedEvent(topic, body))
    ELSE /\ Dropped(MalformedEvent(topic, body))
         /\ UNCHANGED <<transport, web>>

MalformedMessage ==
    /\ LoopRunning
    /\ \E topic \in Topics, body \in MalformedBodies :
           OnMalformedPayload(topic, body)

ValidRawMessage == LoopRunning /\ RawMessage
ValidTwinMessage == LoopRunning /\ TwinMessage

NextMalformed ==
    \/ Tick
    \/ ValidRawMessage
    \/ ValidTwinMessage
    \/ MalformedMessage

SpecMalformed == Init /\ [][NextMalformed]_vars

\* C15: a malformed payload is dropped: the tables, the state maps are as
\* before, no error leaves the callback and the loop goes on reading.
C15_MalformedIsDropped ==
    [][lastEvent'.kind \in MalformedBodies
        => /\ UNCHANGED <<raw, twin, logs, last_anomaly_state,
                          prediction_error_counts, error_active_flags>>
           /\ outbox' = << >>
           /\ LoopRunning']_vars

\* ------------------------------------- SpecRouter: the dispatch on the topic
\* A valid JSON object arrives on a topic.  MotorInfo and the channel layer
\* are present or not from the start.
KnownTopics == Topics \ {"unknown"}

\* an unknown topic taken for the twin topic
UnknownTopicAsTwin(topic) == HandleTwin(20, 20, 20)

\* the else branch of the dispatch: a line on stdout
UnknownTopic(topic) == Dropped(Event(topic))

\* _on_message_async on a JSON object: `if not motor: return`, then the
\* if/elif chain on msg.topic
Route(topic) ==
    /\ UNCHANGED web /\ transport' = [transport EXCEPT !.topic = topic]
    /\ IF ~motor
       THEN Dropped(Event(topic))
       ELSE IF topic = "twin"
       THEN \E c \in {10, 20} : HandleTwin(c, 20, 20)
       ELSE IF topic = "malfunction"
       THEN HandleMalfunction("WARNING", NoMessageType, <<ExternalText>>)
       ELSE IF topic = "raw"
       THEN \E m \in Metrics : HandleRaw(m, 20, NoTimestamp)
       ELSE IF topic = "prediction"
       THEN \E v \in {-1, 1} : HandlePrediction("current", v)
       ELSE UnknownTopic(topic)

KnownTopicMessage ==
    /\ LoopRunning
    /\ \E topic \in KnownTopics : Route(topic) /\ Len(logs') <= MaxLogs

UnknownTopicMessage ==
    /\ LoopRunning
    /\ Route("unknown")

InitRouter ==
    /\ InitMemory
    /\ now = 0
    /\ deviation_threshold = 10
    /\ motor \in BOOLEAN
    /\ channel_layer \in BOOLEAN
    /\ raw = [m \in Metrics |-> NoRow]
    /\ twin = NoTwin
    /\ logs = << >>
    /\ outbox = << >>
    /\ lastEvent = Event("start")
    /\ transport = NoTraffic
    /\ web = NoWeb

NextRouter ==
    \/ Tick
    \/ KnownTopicMessage
    \/ UnknownTopicMessage

SpecRouter == InitRouter /\ [][NextRouter]_vars

\* the step just taken handled a message on this topic
Routed(topic) == transport'.topic = topic /\ lastEvent'.kind # "clock"

\* C16: a message on a topic that is none of the configured ones changes no
\* table and no state map, sends nothing and raises nothing.
C16_UnknownTopicDropped ==
    [][Routed("unknown")
        => /\ UNCHANGED <<raw, twin, logs, last_anomaly_state,
                          prediction_error_counts, error_active_flags>>
           /\ outbox' = << >>
           /\ LoopRunning']_vars

\* an unknown topic was handled with a motor, rows in the tables and a
\* deviation recorded in memory
C16_Witness ==
    /\ transport.topic = "unknown"
    /\ lastEvent.kind = "unknown"
    /\ motor
    /\ channel_layer
    /\ logs # << >>
    /\ twin # NoTwin
    /\ \E m \in Metrics : Get(last_anomaly_state, m, FALSE)

\* C17: without a MotorInfo record a message on the twin or a raw topic is
\* still handled: its row is written and a snapshot is broadcast.
C17_HandledWithoutMotor ==
    [][(~motor /\ channel_layer /\ (Routed("twin") \/ Routed("raw")))
        => /\ Broadcast'
           /\ Routed("twin") => twin'.timestamp = now
           /\ Routed("raw") => \E m \in Metrics : raw'[m].timestamp = now]_vars

\* the step just taken handled a prediction message whose sample write
\* (_save_prediction_data) raised
SampleWriteFailed == motor /\ Routed("prediction") /\ ~SavePredictionSucceeds

\* C18: when a persistence call of a handling fails, the state maps keep the
\* values they had before the message.
C18_FailedWriteLeavesMemory ==
    [][SampleWriteFailed
        => UNCHANGED <<last_anomaly_state, prediction_error_counts,
                       error_active_flags>>]_vars

\* the write of the message's record raises for no reason of the channel
WriteSucceeds(topic) == topic = "prediction" => SavePredictionSucceeds

\* the step just taken wrote the record of its message
RecordPersisted(topic) ==
    IF topic = "twin" THEN twin'.timestamp = now
    ELSE IF topic = "raw" THEN \E m \in Metrics : raw'[m] = RawRow(now, 20)
    ELSE IF topic = "malfunction"
    THEN /\ Len(logs') > Len(logs)
         /\ logs'[Len(logs) + 1] = LogRow("WARNING", <<ExternalText>>)
    ELSE SavePredictionSucceeds

\* C19: a handling that sends anything to the dashboard group has written its
\* record, and the record is written whether or not the channel layer is
\* available.
C19_WriteBeforeNotify ==
    [][\A topic \in KnownTopics :
          (motor /\ Routed(topic))
          => /\ outbox' # << >> => RecordPersisted(topic)
             /\ WriteSucceeds(topic) => RecordPersisted(topic)]_vars

\* a twin message was handled without a channel layer: the row is in the
\* table and nothing was sent
C19_Witness ==
    /\ motor
    /\ ~channel_layer
    /\ transport.topic = "twin"
    /\ lastEvent.kind = "twin"
    /\ twin.timestamp = now
    /\ outbox = << >>

\* the step just taken moved the prediction tracker of some metric or wrote
\* one of its log entries
TrackerActed ==
    \/ prediction_error_counts' # prediction_error_counts
    \/ error_active_flags' # error_active_flags
    \/ \E m \in Metrics : PredictionRows(Created, m) # << >>

\* C20: the prediction sample is persisted before the tracker acts: a
\* handling in which the tracker changed a count or a flag or wrote a log
\* entry has persisted its sample.
C20_SampleBeforeTracker ==
    [][(motor /\ Routed("prediction") /\ TrackerActed)
        => RecordPersisted("prediction")]_vars

\* the group_send calls of the step just taken with this message_type
Sent(message_type) ==
    Cardinality({i \in 1..Len(outbox') : outbox'[i].message_type = message_type})

\* the step just taken handled a message on this topic to its end
Handled(topic) == motor /\ Routed(topic) /\ WriteSucceeds(topic)

\* C21 as stated: every message handled to its end on a known topic sends
\* exactly one plot_data_point and exactly one dashboard_update.
C21_OnePointOneSnapshotAsStated ==
    [][\A topic \in KnownTopics :
          (channel_layer /\ Handled(topic))
          => Sent("plot_data_point") = 1 /\ Sent("dashboard_update") = 1]_vars

\* C21 amended: with a channel layer, a message handled to its end on the
\* twin or a raw topic sends one plot_data_point and then one
\* dashboard_update; one on a malfunction topic sends one dashboard_update
\* and no plot_data_point.
C21_PointOnlyForSamples ==
    [][\A topic \in KnownTopics :
          (channel_layer /\ Handled(topic))
          => /\ Len(outbox') = Sent("plot_data_point") + Sent("dashboard_update")
             /\ Sent("dashboard_update") = 1
             /\ Sent("plot_data_point") = (IF topic = "malfunction" THEN 0 ELSE 1)
             /\ outbox'[Len(outbox')].message_type = "dashboard_update"]_vars

\* a malfunction message was handled: one snapshot, no point notification
C21_Witness ==
    /\ motor
    /\ channel_layer
    /\ transport.topic = "malfunction"
    /\ lastEvent.kind = "malfunction"
    /\ Len(outbox) = 1
    /\ outbox[1].message_type = "dashboard_update"

\* ------------------------------------ SpecTimestamp: payloads with timestamp
\* A payload timestamp is an ISO-8601 string: a local time and a zone offset
\* or none.  Offsets are counted in the unit of the clock.
NoOffset == None
IsoTimestamps ==
    {[local |-> l, offset |-> o] : l \in {4, 8}, o \in {NoOffset, -2, 0, 2}}

\* make_aware_from_iso(iso_string): fromisoformat, then astimezone(utc) of an
\* aware value, make_aware(..., utc) of a naive one
make_aware_from_iso(iso) ==
    IF iso.offset = NoOffset THEN iso.local ELSE iso.local - iso.offset

\* models with timestamp = DateTimeField(auto_now_add=True); the others have
\* default=timezone.now
AutoNowAdd == {"LiveData", "TwinData", "MalfunctionLog"}

\* the timestamp of the row that Model.objects.create(timestamp=ts, ...)
\* inserts: pre_save of an auto_now_add field overwrites it on insert
CreatedTimestamp(model, ts) == IF model \in AutoNowAdd THEN now ELSE ts

\* _handle_twin_data on a payload with 'timestamp': _save_twin_data parses it
\* and passes it to TwinData.objects.create
HandleTwinStamped(iso, c, te, to) ==
    IF ~motor
    THEN Dropped(Event("twin"))
    ELSE /\ twin' = TwinRow(CreatedTimestamp("TwinData", make_aware_from_iso(iso)),
                            c, te, to)
         /\ ProcessAndNotify(raw, twin', logs, error_active_flags,
                             prediction_error_counts, NotifyPlotDataPoint)
         /\ lastEvent' = Event("twin")
         /\ UNCHANGED <<now, deviation_threshold, motor, raw,
                        prediction_error_counts, error_active_flags, channel_layer>>

StampedTwinMessage ==
    \E iso \in IsoTimestamps :
        /\ HandleTwinStamped(iso, 20, 20, 20)
        /\ UNCHANGED web /\ transport' = [transport EXCEPT !.topic = "twin", !.timestamp = iso]

StampedRawMessage ==
    \E iso \in IsoTimestamps, m \in Metrics :
        /\ HandleRaw(m, 20, CreatedTimestamp("RawData", make_aware_from_iso(iso)))
        /\ UNCHANGED web /\ transport' = [transport EXCEPT !.topic = "raw", !.timestamp = iso]

NextTimestamp ==
    \/ Tick
    \/ StampedTwinMessage
    \/ StampedRawMessage

SpecTimestamp == Init /\ [][NextTimestamp]_vars

\* T converted to UTC; a timestamp without offset is taken as UTC
UtcOf(iso) == IF iso.offset = NoOffset THEN iso.local ELSE iso.local - iso.offset

\* C22: a record persisted from a payload with timestamp T reads back with
\* timestamp T converted to UTC and the payload's values (here: the twin row,
\* and the raw row when it is the newest of its metric).
C22_TimestampRoundTrip ==
    [][\A iso \in IsoTimestamps :
          (transport'.timestamp = iso /\ lastEvent'.kind # "clock")
          => /\ Routed("twin") => twin' = TwinRow(UtcOf(iso), 20, 20, 20)
             /\ Routed("raw") =>
                    \E m \in Metrics :
                        \/ raw'[m] = RawRow(UtcOf(iso), 20)
                        \/ raw[m].timestamp >= UtcOf(iso)]_vars

\* ------------------------------ SpecSeverity: the three malfunction topics
MalfunctionTopics == {"malfunction/info", "malfunction/warning", "malfunction/error"}

\* the third argument of _handle_malfunction_data in the dispatch
TopicType(topic) ==
    CASE topic = "malfunction/info" -> "INFO"
      [] topic = "malfunction/warning" -> "WARNING"
      [] topic = "malfunction/error" -> "ERROR"

\* the payload has a key 'message_type' or not
PayloadMessageTypes == {NoMessageType, "INFO", "WARNING", "ERROR"}

TypedMalfunctionMessage ==
    \E topic \in MalfunctionTopics, pt \in PayloadMessageTypes :
        /\ HandleMalfunction(TopicType(topic), pt, <<ExternalText>>)
        /\ Len(logs') <= MaxLogs
        /\ UNCHANGED web /\ transport' = [transport EXCEPT !.topic = topic, !.message_type = pt]

NextSeverity ==
    \/ Tick
    \/ TypedMalfunctionMessage
    \/ Delete

SpecSeverity == Init /\ [][NextSeverity]_vars

\* C23 as stated: the entry persisted for a message on a malfunction topic
\* has the severity of the topic, whatever the payload contains.
C23_SeverityFromTopicAsStated ==
    [][\A topic \in MalfunctionTopics :
          (Routed(topic) /\ lastEvent'.kind = "malfunction")
          => /\ Len(Created) >= 1
             /\ Created[1].message_type = TopicType(topic)]_vars

\* C23 amended: the severity is the payload's message_type when the payload
\* has one, and the topic's otherwise.
C23_PayloadTypeOverridesTopic ==
    [][\A topic \in MalfunctionTopics :
          (Routed(topic) /\ lastEvent'.kind = "malfunction")
          => /\ Len(Created) >= 1
             /\ Created[1].description = <<ExternalText>>
             /\ Created[1].message_type =
                    (IF transport'.message_type # NoMessageType
                     THEN transport'.message_type ELSE TopicType(topic))]_vars

\* a payload with message_type ERROR on the warning topic made an ERROR row
C23_Witness ==
    /\ transport.topic = "malfunction/warning"
    /\ transport.message_type = "ERROR"
    /\ lastEvent.kind = "malfunction"
    /\ logs # << >>
    /\ logs[Len(logs)] = LogRow("ERROR", <<ExternalText>>)

\* ------------------------- SpecViews: the views interleaved with the pipeline
\* acknowledge_log and delete_log run in the web server's threads with
\* autocommit: get_object_or_404 and the following save() / delete() are two
\* database statements, and other statements may run between them.

\* the place of the row at pos after the row at j was deleted
AfterDeletion(pos, j) ==
    IF pos = None THEN None
    ELSE IF pos = j THEN 0
    ELSE IF pos > j THEN pos - 1
    ELSE pos

\* log_entry = get_object_or_404(MalfunctionLog, id=log_id) in acknowledge_log
AcknowledgeLoad ==
    /\ web.requests.acknowledge = NoRequest
    /\ \E i \in 1..Len(logs) :
           web' = [web EXCEPT !.requests.acknowledge = [pos |-> i, row |-> logs[i]]]
    /\ outbox' = << >>
    /\ lastEvent' = Event("view")
    /\ UNCHANGED <<now, deviation_threshold, motor, raw, twin, logs,
                   last_anomaly_state, prediction_error_counts,
                   error_active_flags, channel_layer, transport>>

\* log_entry.acknowledged = True; log_entry.save(): Model.save() runs an
\* UPDATE of every column by primary key and, when no row was updated, an
\* INSERT of the instance (pre_save of auto_now_add then stamps it with now,
\* which makes it the newest row)
AcknowledgeSave ==
    LET request == web.requests.acknowledge
        saved == [request.row EXCEPT !.acknowledged = TRUE]
    IN  /\ request # NoRequest
        /\ logs' = IF request.pos > 0
                   THEN [logs EXCEPT ![request.pos] = saved]
                   ELSE Append(logs, saved)
        /\ web' = [web EXCEPT !.requests.acknowledge = NoRequest]
        /\ outbox' = << >>
        /\ lastEvent' = Event("view")
        /\ UNCHANGED <<now, deviation_threshold, motor, raw, twin,
                       last_anomaly_state, prediction_error_counts,
                       error_active_flags, channel_layer, transport>>

\* log_entry = get_object_or_404(MalfunctionLog, id=log_id) in delete_log
DeleteLoad ==
    /\ web.requests.delete = NoRequest
    /\ \E i \in 1..Len(logs) :
           web' = [web EXCEPT !.requests.delete = [pos |-> i, row |-> logs[i]]]
    /\ outbox' = << >>
    /\ lastEvent' = Event("view")
    /\ UNCHANGED <<now, deviation_threshold, motor, raw, twin, logs,
                   last_anomaly_state, prediction_error_counts,
                   error_active_flags, channel_layer, transport>>

\* log_entry.delete(): DELETE by primary key
DeleteRow ==
    LET request == web.requests.delete
    IN  /\ request # NoRequest
        /\ logs' = IF request.pos > 0 THEN Without(logs, request.pos) ELSE logs
        /\ web' = [web EXCEPT
               !.requests.delete = NoRequest,
               !.requests.acknowledge.pos = AfterDeletion(@, request.pos)]
        /\ outbox' = << >>
        /\ lastEvent' = Event("view")
        /\ UNCHANGED <<now, deviation_threshold, motor, raw, twin,
                       last_anomaly_state, prediction_error_counts,
                       error_active_flags, channel_layer, transport>>

NextViews ==
    \/ Tick
    \/ MalfunctionMessage
    \/ AcknowledgeLoad
    \/ AcknowledgeSave
    \/ DeleteLoad
    \/ DeleteRow

SpecViews == Init /\ [][NextViews]_vars

IsPrefix(s, t) == Len(s) <= Len(t) /\ SubSeq(t, 1, Len(s)) = s

\* C24: the pipeline only adds entries; a view step leaves the table as it
\* is, or sets acknowledged of one entry to true, or removes one entry.  No
\* other field changes and no view adds an entry (a deleted entry does not
\* come back).
C24_EntriesOnlyAcknowledgedOrDeleted ==
    [][IF lastEvent'.kind = "view"
       THEN \/ logs' = logs
            \/ \E i \in 1..Len(logs) : logs' = [logs EXCEPT ![i].acknowledged = TRUE]
            \/ \E i \in 1..Len(logs) : logs' = Without(logs, i)
       ELSE IsPrefix(logs, logs')]_vars

\* ---------------------------------------- the dashboard consumer (consumers.py)
\* end_time == 'live'
LiveEnd == -2000
\* timedelta(minutes=10), in seconds
TenMinutes == 600

MotorRetractsText == "motor faehrt ein"
MotorExtendsText == "motor faehrt aus"
EndPositionText == "Endlage erreicht"

\* the two filters of get_active_run_time_window
IsRunStart(l) ==
    /\ l.message_type = "INFO"
    /\ l.description[1] \in {MotorRetractsText, MotorExtendsText}

IsEndPosition(l) ==
    /\ l.message_type = "INFO"
    /\ l.description[1] = EndPositionText

\* utils.get_active_run_time_window(): (start_time, end_time) from the log
\* table; end_time is None while no end position follows the latest start
get_active_run_time_window(logsT) ==
    LET starts == {i \in 1..Len(logsT) : IsRunStart(logsT[i])}
    IN  IF starts = {}
        THEN [start |-> None, end |-> None]
        ELSE LET latest == CHOOSE i \in starts :
                     \A j \in starts : logsT[j].timestamp <= logsT[i].timestamp
                 start_time == logsT[latest].timestamp
                 stops == {i \in 1..Len(logsT) :
                              /\ IsEndPosition(logsT[i])
                              /\ logsT[i].timestamp >= start_time}
             IN  [start |-> start_time,
                  end |-> IF stops = {} THEN None
                          ELSE logsT[CHOOSE i \in stops : \A j \in stops :
                                   logsT[i].timestamp <= logsT[j].timestamp].timestamp]

\* a send_plot_data that leaves live mode on for a concrete or absent end
PlotWindowKeepsLive(plot_type, start_time, end_time, logsT) ==
    IF plot_type = "initial_load_live"
    THEN LET run == get_active_run_time_window(logsT)
         IN  IF run.start # None /\ run.end # None
             THEN [start |-> run.start, end |-> run.end, live |-> TRUE]
             ELSE [start |-> now - TenMinutes, end |-> now, live |-> TRUE]
    ELSE IF end_time = LiveEnd
    THEN [start |-> IF start_time = None THEN now - TenMinutes ELSE start_time,
          end |-> now, live |-> TRUE]
    ELSE IF start_time = None /\ end_time = None
    THEN LET run == get_active_run_time_window(logsT)
         IN  IF run.start # None /\ run.end # None
             THEN [start |-> run.start, end |-> run.end, live |-> FALSE]
             ELSE [start |-> now - TenMinutes, end |-> now, live |-> FALSE]
    ELSE [start |-> start_time, end |-> end_time, live |-> TRUE]

\* send_plot_data(start_time, end_time, plot_type): the window queried and
\* the live mode it sets
PlotWindow(plot_type, start_time, end_time, logsT) ==
    IF plot_type = "initial_load_live"
    THEN LET run == get_active_run_time_window(logsT)
         IN  IF run.start # None /\ run.end # None
             THEN [start |-> run.start, end |-> run.end, live |-> TRUE]
             ELSE [start |-> now - TenMinutes, end |-> now, live |-> TRUE]
    ELSE IF end_time = LiveEnd
    THEN [start |-> IF start_time = None THEN now - TenMinutes ELSE start_time,
          end |-> now, live |-> TRUE]
    ELSE IF start_time = None /\ end_time = None
    THEN LET run == get_active_run_time_window(logsT)
         IN  IF run.start # None /\ run.end # None
             THEN [start |-> run.start, end |-> run.end, live |-> FALSE]
             ELSE [start |-> now - TenMinutes, end |-> now, live |-> FALSE]
    ELSE [start |-> start_time, end |-> end_time, live |-> FALSE]

\* the 'end_time' of the response: current_end_time.isoformat() if
\* current_end_time != 'live' and current_end_time else 'live'
EchoedEndTime(current_end_time) ==
    IF current_end_time # LiveEnd /\ current_end_time # None
    THEN current_end_time ELSE LiveEnd

\* the plot_data_update that send_plot_data sends to the browser: start and
\* end are the window queried, end_time and live_mode_active the fields echoed
PlotDataUpdate(plot_type, window) ==
    [message_type |-> "plot_data_update", plot_type |-> plot_type,
     start |-> window.start, end |-> window.end,
     end_time |-> EchoedEndTime(window.end),
     live_mode_active |-> window.live]

\* send_current_data: the panel data read from the tables
CurrentData ==
    [message_type |-> "dashboard_update",
     anomaly_status |-> [detected |-> FALSE, message |-> <<"Waiting for status update...">>]]

\* every connection's client field emptied: what was sent in an earlier step
Quiet(w) ==
    [w EXCEPT !.connections = [c \in Connections |-> [@[c] EXCEPT !.client = << >>]]]

\* what every web step leaves alone
WebFrame ==
    /\ outbox' = << >>
    /\ lastEvent' = Event("web")
    /\ UNCHANGED <<now, deviation_threshold, motor, raw, twin, logs,
                   last_anomaly_state, prediction_error_counts,
                   error_active_flags, channel_layer, transport>>

\* DashboardConsumer.connect: group_add, accept, send_current_data,
\* send_plot_data(plot_type='initial_load_live')
Connect(c) ==
    LET window == PlotWindow("initial_load_live", None, None, logs)
    IN  /\ ~web.connections[c].open
        /\ web' = [Quiet(web) EXCEPT
               !.group = @ \cup {c},
               !.connections[c] =
                   [open |-> TRUE, live_mode_active |-> window.live,
                    mailbox |-> << >>,
                    client |-> <<CurrentData,
                                 PlotDataUpdate("initial_load_live", window)>>]]
        /\ WebFrame

\* a disconnect handler that leaves the channel in the group
DisconnectKeepsMember(c) ==
    /\ web.connections[c].open
    /\ web' = [Quiet(web) EXCEPT !.connections[c] = Closed]
    /\ WebFrame

\* DashboardConsumer.disconnect: group_discard, live_mode_active = False
Disconnect(c) ==
    /\ web.connections[c].open
    /\ web' = [Quiet(web) EXCEPT !.group = @ \ {c}, !.connections[c] = Closed]
    /\ WebFrame

\* DashboardConsumer.receive with {'type': 'request_plot_data', start_time?,
\* end_time?}: end_time 'live', a time, or absent
ReceivePlotData(c, start_time, end_time) ==
    LET window == PlotWindow("historical_or_live_range", start_time, end_time, logs)
    IN  /\ web.connections[c].open
        /\ web' = [Quiet(web) EXCEPT
               !.connections[c].live_mode_active = window.live,
               !.connections[c].client =
                   <<PlotDataUpdate("historical_or_live_range", window)>>]
        /\ WebFrame

\* DashboardConsumer.receive with {'type': 'request_initial_data'}
ReceiveInitialData(c) ==
    LET window == PlotWindow("initial_load_live", None, None, logs)
    IN  /\ web.connections[c].open
        /\ web' = [Quiet(web) EXCEPT
               !.connections[c].live_mode_active = window.live,
               !.connections[c].client =
                   <<PlotDataUpdate("initial_load_live", window)>>]
        /\ WebFrame

\* get_latest_plot_data_point() has an entry: a raw row, or a twin row with
\* current or temp (the twin's torque is not put in the point)
HasPlotDataPoint ==
    \/ \E m \in Metrics : raw[m] # NoRow /\ raw[m].value # None
    \/ twin # NoTwin /\ (twin.current # None \/ twin.temp # None)

\* a handler that forwards dashboard_update only in live mode
ForwardedLiveOnly(conn, event) ==
    IF conn.live_mode_active
    THEN IF event.message_type = "plot_data_point"
         THEN IF HasPlotDataPoint THEN <<PlotDataPoint>> ELSE << >>
         ELSE <<event>>
    ELSE << >>

\* a handler that forwards plot_data_point in every mode
ForwardedAlways(conn, event) ==
    IF event.message_type = "plot_data_point"
    THEN IF HasPlotDataPoint THEN <<PlotDataPoint>> ELSE << >>
    ELSE <<event>>

\* DashboardConsumer.dashboard_message(event): what it sends to the browser
Forwarded(conn, event) ==
    IF event.message_type = "plot_data_point"
    THEN IF conn.live_mode_active /\ HasPlotDataPoint
         THEN <<PlotDataPoint>> ELSE << >>
    ELSE IF event.message_type = "dashboard_update"
    THEN <<event>>
    ELSE << >>

\* the consumer takes the next group message from its channel
DashboardMessage(c) ==
    LET conn == web.connections[c]
    IN  /\ conn.open
        /\ conn.mailbox # << >>
        /\ web' = [Quiet(web) EXCEPT
               !.connections[c].mailbox = Tail(@),
               !.connections[c].client = Forwarded(conn, Head(conn.mailbox))]
        /\ WebFrame

\* channel_layer.group_send("iot_dashboard_group", ...) for each message of
\* sent: a copy is put on the channel of every member
GroupSend(w, sent) ==
    [Quiet(w) EXCEPT !.connections =
        [c \in Connections |->
            IF c \in w.group THEN [@[c] EXCEPT !.mailbox = @ \o sent] ELSE @[c]]]

\* ------------------------- SpecDashboard: the pipeline and two connections
\* the mailboxes stay within the bound
MailboxesBounded(w) ==
    \A c \in Connections : Len(w.connections[c].mailbox) <= MaxMailbox

DashRawMessage ==
    /\ HandleRaw("current", 20, NoTimestamp)
    /\ Len(logs') <= MaxLogs
    /\ web' = GroupSend(web, outbox')
    /\ MailboxesBounded(web')
    /\ UNCHANGED transport

DashTwinMessage ==
    /\ HandleTwin(20, 20, 20)
    /\ Len(logs') <= MaxLogs
    /\ web' = GroupSend(web, outbox')
    /\ MailboxesBounded(web')
    /\ UNCHANGED transport

OpenConnection == \E c \in Connections : Connect(c)
CloseConnection == \E c \in Connections : Disconnect(c)

ClientRequestsPlot ==
    \E c \in Connections, start_time \in {None, 0}, end_time \in {None, LiveEnd, 5} :
        ReceivePlotData(c, start_time, end_time)

ClientRequestsInitial == \E c \in Connections : ReceiveInitialData(c)

Deliver == \E c \in Connections : DashboardMessage(c)

NextDashboard ==
    \/ DashRawMessage
    \/ DashTwinMessage
    \/ OpenConnection
    \/ CloseConnection
    \/ ClientRequestsPlot
    \/ ClientRequestsInitial
    \/ Deliver

SpecDashboard == Init /\ [][NextDashboard]_vars

\* the step just taken is connection c handling the group message at the
\* head of its mailbox
Handles(c) ==
    /\ web.connections[c].open
    /\ web'.connections[c].open
    /\ web.connections[c].mailbox # << >>
    /\ web'.connections[c].mailbox = Tail(web.connections[c].mailbox)

OpenConnections(w) == {c \in Connections : w.connections[c].open}

\* C25: the group is the set of the connections that are open; a message
\* sent to the group reaches the channel of every member; a member that
\* handles a dashboard_update sends it to its browser in any mode.
C25_GroupIsOpenConnections ==
    [][/\ web'.group = OpenConnections(web')
       /\ outbox' # << >> =>
              \A c \in web.group :
                  web'.connections[c].mailbox = web.connections[c].mailbox \o outbox'
       /\ \A c \in Connections :
              (Handles(c) /\ Head(web.connections[c].mailbox).message_type
                                 = "dashboard_update")
              => web'.connections[c].client = <<Head(web.connections[c].mailbox)>>]_vars

\* a connection in a fixed view has just sent a pipeline snapshot to its
\* browser, while the other connection is closed again
C25_Witness ==
    \E c \in Connections, d \in Connections :
        /\ c # d
        /\ web.group = {c}
        /\ ~web.connections[d].open
        /\ ~web.connections[c].live_mode_active
        /\ Len(web.connections[c].client) = 1
        /\ web.connections[c].client[1].message_type = "dashboard_update"
        /\ web.connections[c].client[1].anomaly_status.message = StaleMessage

\* C26: with a channel layer, every sample handled sends one plot_data_point
\* to the channel of every member, whatever their modes; a connection sends
\* plot_data_point to its browser only when it handles such a notification
\* and is in live mode then.
C26_PointOnlyInLiveMode ==
    [][/\ (motor /\ channel_layer /\ lastEvent'.kind \in {"raw", "twin"})
          => /\ Sent("plot_data_point") = 1
             /\ \A c \in web.group :
                    web'.connections[c].mailbox = web.connections[c].mailbox \o outbox'
       /\ \A c \in Connections :
              (\E i \in 1..Len(web'.connections[c].client) :
                   web'.connections[c].client[i].message_type = "plot_data_point")
              => /\ Handles(c)
                 /\ Head(web.connections[c].mailbox).message_type = "plot_data_point"
                 /\ web.connections[c].live_mode_active]_vars

\* one connection in live mode has just sent a plot_data_point to its
\* browser; the other, in a fixed view, has handled all its notifications
C26_Witness ==
    \E c \in Connections, d \in Connections :
        /\ web.connections[c].live_mode_active
        /\ web.connections[c].client = <<PlotDataPoint>>
        /\ web.connections[d].open
        /\ ~web.connections[d].live_mode_active
        /\ web.connections[d].mailbox = << >>

\* --------------------------- SpecWindow: run events and the plot window
\* a MalfunctionLog row with its timestamp column
Stamped(row, ts) ==
    [message_type |-> row.message_type, description |-> row.description,
     acknowledged |-> row.acknowledged, timestamp |-> ts]

RunEventTexts == {MotorRetractsText, MotorExtendsText, EndPositionText}

\* _handle_malfunction_data on malfunction/info, the row shown with the
\* timestamp that auto_now_add gives it
HandleMalfunctionStamped(topic_type, payload_message_type, description) ==
    IF ~motor
    THEN Dropped(Event("malfunction"))
    ELSE LET message_type == IF payload_message_type # NoMessageType
                             THEN payload_message_type ELSE topic_type
             row == Stamped(LogRow(message_type, description),
                            CreatedTimestamp("MalfunctionLog", NoTimestamp))
         IN  /\ ProcessAndNotify(raw, twin, Append(logs, row),
                                 error_active_flags, prediction_error_counts, << >>)
             /\ lastEvent' = Event("malfunction")
             /\ UNCHANGED <<now, deviation_threshold, motor, raw, twin,
                            prediction_error_counts, error_active_flags,
                            channel_layer>>

RunEventMessage ==
    \E text \in RunEventTexts :
        /\ HandleMalfunctionStamped("INFO", NoMessageType, <<text>>)
        /\ Len(logs') <= MaxLogs
        /\ web' = GroupSend(web, outbox')
        /\ MailboxesBounded(web')
        /\ UNCHANGED transport

NextWindow ==
    \/ Tick
    \/ RunEventMessage
    \/ OpenConnection
    \/ CloseConnection
    \/ ClientRequestsPlot
    \/ ClientRequestsInitial
    \/ Deliver

SpecWindow == Init /\ [][NextWindow]_vars

\* the window of the plot_data_update that connection c has just sent
WindowSent(c) ==
    LET sent == web'.connections[c].client
        update == sent[Len(sent)]
    IN  [start |-> update.start, end |-> update.end]

\* the window stated for a request without range: the run's bounds, up to
\* now for a run not yet ended, the last ten minutes without a run
StatedRunWindow ==
    LET run == get_active_run_time_window(logs)
    IN  IF run.start = None THEN [start |-> now - TenMinutes, end |-> now]
        ELSE IF run.end = None THEN [start |-> run.start, end |-> now]
        ELSE [start |-> run.start, end |-> run.end]

\* the explicit bounds a client sends
ExplicitTimes == {0, 5}

\* C27: an explicit [start, end] request yields exactly that window; a
\* request without range (connect, request_initial_data, request_plot_data
\* with neither bound) yields the bounds of the most recent run, ended or
\* not, and the last ten minutes up to now when the log has no run.
C27_WindowAsStated ==
    [][\A c \in Connections :
          /\ \A s \in ExplicitTimes, e \in ExplicitTimes :
                 ReceivePlotData(c, s, e) => WindowSent(c) = [start |-> s, end |-> e]
          /\ (Connect(c) \/ ReceiveInitialData(c) \/ ReceivePlotData(c, None, None))
             => WindowSent(c) = StatedRunWindow]_vars

\* C28: an evaluation in which a required input is missing or stale leaves
\* last_anomaly_state as it was and creates no log entry; an INFO 'deviation
\* resolved' row for a metric is created only by an evaluation on fresh
\* inputs that finds the metric, deviating until then, not deviating.
C28_StaleEvaluationChangesNothing ==
    [][/\ (Broadcast' /\ ~RequiredInputsFresh')
          => /\ last_anomaly_state' = last_anomaly_state
             /\ Created = << >>
       /\ \A m \in Metrics :
              DeviationResolved(m) \in Range(Created)
              => /\ Evaluated'
                 /\ Get(last_anomaly_state, m, FALSE)
                 /\ ~MetricDeviating(raw', twin', m, deviation_threshold')
                 /\ ~Get(last_anomaly_state', m, FALSE)]_vars

\* after the stale period began, a twin sample that agrees with the raw
\* current was evaluated while other inputs are stale: current, deviating
\* before, is still in state deviating and has no 'resolved' row
C28_Witness ==
    /\ Broadcast
    /\ ~RequiredInputsFresh
    /\ lastEvent.kind = "twin"
    /\ now = TickStep
    /\ raw["current"] # NoRow /\ raw["current"].value = twin.current
    /\ last_anomaly_state["current"]
    /\ Len(DeviationRows(logs, "current")) = 1
    /\ DeviationRows(logs, "current")[1].message_type = "WARNING"
    /\ Snapshot.anomaly_status.message = StaleMessage

\* ------------- SpecOwnership: the pipeline, the log views and connections
\* The four required inputs have arrived and the twin's current is 100 % off:
\* current is in state deviating and its WARNING row is in the table.
InitOwnership ==
    /\ last_anomaly_state = [k \in {"current", "temp", "torque"} |-> k = "current"]
    /\ prediction_error_counts = [k \in {"temperature", "current", "torque"} |-> 0]
    /\ error_active_flags =
           [k \in {"temperature", "current", "torque", "temp"} |-> FALSE]
    /\ now = 0
    /\ deviation_threshold = 10
    /\ motor = TRUE
    /\ channel_layer = TRUE
    /\ raw = [m \in Metrics |-> RawRow(0, 20)]
    /\ twin = TwinRow(0, 10, 20, 20)
    /\ logs = <<LogRow("WARNING", <<DeviationWarningText, "current", 10, 20, 10>>)>>
    /\ outbox = << >>
    /\ lastEvent = Event("start")
    /\ transport = NoTraffic
    /\ web = NoWeb

NextOwnership ==
    \/ PredictionTopicMessage
    \/ Acknowledge
    \/ Delete
    \/ OpenConnection
    \/ CloseConnection
    \/ ClientRequestsPlot
    \/ ClientRequestsInitial

SpecOwnership == InitOwnership /\ [][NextOwnership]_vars

\* the three maps of the pipeline instance
StateMaps == <<last_anomaly_state, prediction_error_counts, error_active_flags>>

\* the kinds of step that are the pipeline handling a message
MessageKinds == {"raw", "twin", "malfunction", "prediction"}

\* C29: last_anomaly_state, prediction_error_counts and error_active_flags
\* change only in a step in which the pipeline handles a message; the log
\* views and every connection operation leave the three maps as they are.
C29_MapsOwnedByPipeline ==
    [][/\ StateMaps' # StateMaps => lastEvent'.kind \in MessageKinds
       /\ lastEvent'.kind \in {"view", "web"} => StateMaps' = StateMaps]_vars

\* the prediction ERROR row of current has been acknowledged through the
\* view while a connection is open: the error flag is still set, and so is
\* the deviation state of current
C29_Witness ==
    /\ lastEvent.kind = "view"
    /\ error_active_flags["current"]
    /\ last_anomaly_state["current"]
    /\ \E i \in 1..Len(logs) :
           /\ logs[i].description = PredictionError("current").description
           /\ logs[i].acknowledged
    /\ \E c \in Connections : web.connections[c].open

\* a metric without active error whose last k predictions since it was clean
\* (count 0, no error) were bad: each of them added one to the count
AfterBadPredictions(m, k) ==
    /\ ~error_active_flags[m]
    /\ prediction_error_counts[m] = k

\* C30: for a metric that was clean, the k-th bad prediction in a row, k in
\* 1..9, creates exactly one log for the metric, the WARNING with progress
\* k/10, and leaves error_active false (the count is k); the tenth creates
\* exactly one log, the ERROR, and no WARNING, sets error_active and leaves
\* the count 0.
C30_WarningsThenError ==
    [][\A m \in Metrics, k \in 1..PREDICTION_ERROR_THRESHOLD :
          (AfterBadPredictions(m, k - 1) /\ lastEvent' = PredictionEvent(m, -1))
          => IF k < PREDICTION_ERROR_THRESHOLD
             THEN /\ PredictionRows(Created, m) = <<PredictionWarning(m, k)>>
                  /\ AfterBadPredictions(m, k)'
             ELSE /\ PredictionRows(Created, m) = <<PredictionError(m)>>
                  /\ \A i \in 1..Len(Created) : Created[i].message_type # "WARNING"
                  /\ error_active_flags'[m]
                  /\ prediction_error_counts'[m] = 0]_vars

\* the tenth bad prediction for current has just been handled: the table
\* ends with the WARNING 9/10 and the ERROR, both unacknowledged
C30_Witness ==
    /\ lastEvent = PredictionEvent("current", -1)
    /\ error_active_flags["current"]
    /\ prediction_error_counts["current"] = 0
    /\ Len(logs) >= 2
    /\ logs[Len(logs) - 1] = PredictionWarning("current", PREDICTION_ERROR_THRESHOLD - 1)
    /\ logs[Len(logs)] = PredictionError("current")

\* ------------------ SpecMetrics: prediction messages for the three metrics
\* Prediction messages (-1 bad, 1 good) on the three prediction topics, twin
\* and malfunction messages between them; log rows are deleted through
\* views.delete_log.
MetricPredictionMessage ==
    \E m \in Metrics, v \in {-1, 1} :
        /\ HandlePrediction(m, v)
        /\ Len(logs') <= MaxLogs
        /\ UNCHANGED <<transport, web>>

NominalTwin ==
    /\ HandleTwin(20, 20, 20)
    /\ Len(logs') <= MaxLogs
    /\ UNCHANGED <<transport, web>>

DeleteOldest == DeleteLog(1) /\ UNCHANGED <<transport, web>>

NextMetrics ==
    \/ MetricPredictionMessage
    \/ NominalTwin
    \/ MalfunctionMessage
    \/ DeleteOldest

SpecMetrics == Init /\ [][NextMetrics]_vars

\* C31: a prediction message for metric m leaves the count and the error
\* flag of every other metric as they were; a step that is not the handling
\* of a prediction message leaves all counts and flags as they were.
C31_MetricsIndependent ==
    [][IF lastEvent'.kind = "prediction"
       THEN /\ \A o \in DOMAIN prediction_error_counts \ {lastEvent'.metric} :
                   prediction_error_counts'[o] = prediction_error_counts[o]
            /\ \A o \in DOMAIN error_active_flags \ {lastEvent'.metric} :
                   error_active_flags'[o] = error_active_flags[o]
       ELSE UNCHANGED <<prediction_error_counts, error_active_flags>>]_vars

\* a good prediction for torque has just cleared torque, while current is
\* still accumulating and temperature still has its error active
C31_Witness ==
    /\ lastEvent = PredictionEvent("torque", 1)
    /\ logs # << >> /\ logs[Len(logs)] = PredictionResolved("torque")
    /\ prediction_error_counts["torque"] = 0
    /\ prediction_error_counts["current"] = 2
    /\ error_active_flags["temperature"]

\* the states of a metric's prediction tracker
TrackerState(m) ==
    {s \in {"clean", "warning-accumulating", "error-active"} :
        \/ s = "clean" /\ prediction_error_counts[m] = 0 /\ ~error_active_flags[m]
        \/ s = "warning-accumulating"
              /\ prediction_error_counts[m] > 0 /\ ~error_active_flags[m]
        \/ s = "error-active" /\ error_active_flags[m]}

SnapshotRows == {LogRow(t, <<ExternalText>>) : t \in {"INFO", "WARNING", "ERROR"}}

InitSnapshot ==
    /\ InitMemory
    /\ now = 0
    /\ deviation_threshold = 10
    /\ motor = TRUE
    /\ channel_layer = TRUE
    /\ raw = [m \in Metrics |-> RawRow(0, 20)]
    /\ twin = TwinRow(0, 20, 20, 20)
    /\ logs \in UNION {[1..n -> SnapshotRows] : n \in 0..MaxSnapshotLogs}
    /\ outbox = << >>
    /\ lastEvent = Event("start")
    /\ transport = NoTraffic
    /\ web = NoWeb

SnapshotTwinMessage ==
    \E c \in {10, 20} :
        /\ HandleTwin(c, 20, 20)
        /\ Len(logs') <= MaxSnapshotLogs
        /\ UNCHANGED <<transport, web>>

NextSnapshot ==
    \/ SnapshotTwinMessage
    \/ Acknowledge

SpecSnapshot == InitSnapshot /\ [][NextSnapshot]_vars

\* positions of the unacknowledged WARNING and ERROR rows of a table
Listed(t) ==
    {i \in 1..Len(t) : ~t[i].acknowledged /\ t[i].message_type \in {"WARNING", "ERROR"}}

\* the i-th newest of the positions q
NthNewest(q, i) == CHOOSE p \in q : Cardinality({r \in q : r > p}) = i - 1

\* the up-to-5 most recent unacknowledged WARNING and ERROR rows, newest first
StatedLogList(t) ==
    LET q == Listed(t)
        n == IF Cardinality(q) < 5 THEN Cardinality(q) ELSE 5
    IN  [i \in 1..n |-> t[NthNewest(q, i)]]

\* C32: the log list of every snapshot is the up-to-5 most recent
\* unacknowledged WARNING and ERROR rows of the table, newest first; no
\* acknowledged row and no INFO row is in it.
C32_FiveNewestUnacknowledged ==
    [][Broadcast' =>
          /\ Snapshot'.malfunction_logs = StatedLogList(logs')
          /\ \A i \in 1..Len(Snapshot'.malfunction_logs) :
                 /\ ~Snapshot'.malfunction_logs[i].acknowledged
                 /\ Snapshot'.malfunction_logs[i].message_type # "INFO"]_vars

\* ------------- SpecAlternation: a log table that only grows
\* The four required inputs have arrived and agree.  Raw values are 20, a
\* twin sample has at most one channel at 10; no row is deleted.
InitAlternation ==
    /\ InitMemory
    /\ now = 0
    /\ deviation_threshold = 10
    /\ motor = TRUE
    /\ channel_layer = TRUE
    /\ raw = [m \in Metrics |-> RawRow(0, 20)]
    /\ twin = TwinRow(0, 20, 20, 20)
    /\ logs = << >>
    /\ outbox = << >>
    /\ lastEvent = Event("start")
    /\ transport = NoTraffic
    /\ web = NoWeb

GrowingTwinMessage ==
    \E p \in TwinPayloads :
        /\ HandleTwin(p[1], p[2], p[3])
        /\ Len(logs') <= MaxSnapshotLogs
        /\ UNCHANGED <<transport, web>>

GrowingRawMessage ==
    \E m \in Metrics :
        /\ HandleRaw(m, 20, NoTimestamp)
        /\ Len(logs') <= MaxSnapshotLogs
        /\ UNCHANGED <<transport, web>>

NextAlternation ==
    \/ Tick
    \/ GrowingTwinMessage
    \/ GrowingRawMessage

SpecAlternation == InitAlternation /\ [][NextAlternation]_vars

\* C34: with no failing write and no deletion, the deviation rows of every
\* metric alternate WARNING, INFO, WARNING, ... from a WARNING on, and the
\* metric's state is deviating exactly when its newest deviation row is a
\* WARNING.
C34_DeviationLogsAlternate ==
    \A m \in Metrics :
        LET d == DeviationRows(logs, m)
        IN  /\ \A i \in 1..Len(d) :
                   d[i].message_type = IF i % 2 = 1 THEN "WARNING" ELSE "INFO"
            /\ Get(last_anomaly_state, m, FALSE)
               <=> (d # << >> /\ d[Len(d)].message_type = "WARNING")

\* current has deviated, recovered and deviates again; temperature has
\* deviated and recovered
C34_Witness ==
    /\ Len(DeviationRows(logs, "current")) = 3
    /\ Len(DeviationRows(logs, "temperature")) = 2
    /\ Get(last_anomaly_state, "current", FALSE)
    /\ ~Get(last_anomaly_state, "temperature", FALSE)
    /\ lastEvent.kind = "twin"

\* ---------- SpecSkipped: tracker rows and external rows in one table
\* The four required inputs have arrived and agree.  Prediction messages for
\* current, malfunction messages, nominal twin messages that are evaluated,
\* and the acknowledge view; the table holds up to MaxTrackerLogs rows.
SkippedPredictionMessage ==
    \E v \in {-1, 1} :
        /\ HandlePrediction("current", v)
        /\ Len(logs') <= MaxTrackerLogs
        /\ UNCHANGED <<transport, web>>

SkippedMalfunctionMessage ==
    \E tt \in {"WARNING", "ERROR"} :
        /\ HandleMalfunction(tt, NoMessageType, <<ExternalText>>)
        /\ Len(logs') <= MaxTrackerLogs
        /\ UNCHANGED <<transport, web>>

SkippedTwinMessage ==
    /\ HandleTwin(20, 20, 20)
    /\ Len(logs') <= MaxTrackerLogs
    /\ UNCHANGED <<transport, web>>

NextSkipped ==
    \/ SkippedPredictionMessage
    \/ SkippedMalfunctionMessage
    \/ SkippedTwinMessage
    \/ Acknowledge
    \/ Delete

SpecSkipped == InitAlternation /\ [][NextSkipped]_vars

\* a WARNING or ERROR row written by the prediction tracker
IsTrackerRow(l) ==
    l.description[1] \in {PredictionBadErrorText, PredictionBadWarningText}

\* positions of the unacknowledged WARNING and ERROR rows that the tracker
\* did not write
OtherListed(t) == {i \in Listed(t) : ~IsTrackerRow(t[i])}

\* no metric has its error active or a count above 0
NoPredictionAnomaly ==
    /\ \A k \in DOMAIN error_active_flags : ~error_active_flags[k]
    /\ \A k \in DOMAIN prediction_error_counts : prediction_error_counts[k] = 0

\* the composite message that names row l
MessageOf(l) ==
    IF l.message_type = "ERROR" THEN CriticalMessage(l.description)
    ELSE WarningMessage(l.description)

\* C35: in a snapshot computed on fresh inputs while no prediction anomaly
\* is active, the message is never that of an unacknowledged tracker row:
\* it is the message of the newest unacknowledged WARNING or ERROR row the
\* tracker did not write, when there is one, and no row's message otherwise.
C35_ResolvedPredictionRowsSkipped ==
    [][(Broadcast' /\ RequiredInputsFresh' /\ NoPredictionAnomaly')
       => LET others == OtherListed(logs')
              message == Snapshot'.anomaly_status.message
          IN  /\ \A i \in Listed(logs') :
                     IsTrackerRow(logs'[i]) => message # MessageOf(logs'[i])
              /\ IF others # {}
                 THEN message = MessageOf(logs'[NthNewest(others, 1)])
                 ELSE \A i \in 1..Len(logs') : message # MessageOf(logs'[i])]_vars

\* the newest unacknowledged row is the tracker's WARNING, the bad
\* prediction is resolved, and the snapshot names the external row before it
C35_Witness ==
    /\ Broadcast
    /\ RequiredInputsFresh
    /\ NoPredictionAnomaly
    /\ Len(logs) = 3
    /\ logs[1] = LogRow("ERROR", <<ExternalText>>)
    /\ logs[2] = PredictionWarning("current", 1)
    /\ logs[3] = PredictionResolved("current")
    /\ Snapshot.anomaly_status.message = CriticalMessage(<<ExternalText>>)

\* C36: without a channel layer, the handling of a message writes its record
\* (unless the write itself raises), sends nothing, leaves last_anomaly_state
\* as it was and creates no deviation row.
C36_NoEvaluationWithoutChannel ==
    [][\A topic \in KnownTopics :
          (motor /\ ~channel_layer /\ Routed(topic))
          => /\ WriteSucceeds(topic) => RecordPersisted(topic)
             /\ outbox' = << >>
             /\ last_anomaly_state' = last_anomaly_state
             /\ \A m \in Metrics : DeviationRows(Created, m) = << >>]_vars

\* without a channel layer the four inputs are fresh and the twin's current,
\* just written, is 100 % off the raw current: no state is deviating and the
\* table is empty
C36_Witness ==
    /\ motor
    /\ ~channel_layer
    /\ RequiredInputsFresh
    /\ transport.topic = "twin"
    /\ lastEvent.kind = "twin"
    /\ twin.current = 10
    /\ raw["current"].value = 20
    /\ \A k \in DOMAIN last_anomaly_state : ~last_anomaly_state[k]
    /\ logs = << >>

\* C37: in every snapshot, a value field whose sample is absent or stale at
\* the evaluation holds the placeholder: '-' in real_motor_data, null in
\* digital_twin_data and raw_data.
C37_StaleValuesNotShown ==
    [][Broadcast' =>
          \A m \in Metrics :
              /\ Stale(raw[m])' =>
                     /\ Snapshot'.real_motor_data[m] = Dash
                     /\ Snapshot'.raw_data[m].value = None
              /\ Stale(twin)' => Snapshot'.digital_twin_data[m] = None]_vars

\* a raw current sample was evaluated after the twin sample went stale: the
\* snapshot shows the raw current and no twin value
C37_Witness ==
    /\ Broadcast
    /\ lastEvent.kind = "raw"
    /\ now = TickStep
    /\ twin # NoTwin /\ twin.current = 10 /\ Stale(twin)
    /\ Snapshot.digital_twin_data["current"] = None
    /\ ~Stale(raw["current"])
    /\ Snapshot.real_motor_data["current"] = 20
    /\ Snapshot.raw_data["current"].value = 20
    /\ Stale(raw["torque"]) /\ raw["torque"] # NoRow
    /\ Snapshot.real_motor_data["torque"] = Dash

\* the start_time and end_time a request_plot_data may carry
RequestStarts == {None, 0}
FixedEnds == {None, 5}

\* the live mode of connection c after the step, and the live_mode_active
\* of the plot_data_update it has just sent
LiveAfter(c) == web'.connections[c].live_mode_active
LiveEchoed(c) ==
    LET sent == web'.connections[c].client
    IN  sent[Len(sent)].live_mode_active

\* C38: live mode is on after connect, request_initial_data and
\* request_plot_data with end_time 'live'; off after request_plot_data with
\* a concrete or no end_time and after disconnect; no other step changes it;
\* the live_mode_active of each plot_data_update is the connection's live
\* mode after the request.
C38_LiveModeFollowsLastRequest ==
    [][\A c \in Connections :
          LET goesLive == \/ Connect(c)
                          \/ ReceiveInitialData(c)
                          \/ \E s \in RequestStarts : ReceivePlotData(c, s, LiveEnd)
              goesFixed == \E s \in RequestStarts, e \in FixedEnds :
                               ReceivePlotData(c, s, e)
          IN  /\ goesLive => LiveAfter(c) /\ LiveEchoed(c)
              /\ goesFixed => ~LiveAfter(c) /\ ~LiveEchoed(c)
              /\ Disconnect(c) => ~LiveAfter(c)
              /\ ~(goesLive \/ goesFixed \/ Disconnect(c))
                 => LiveAfter(c) = web.connections[c].live_mode_active]_vars

\* c1 has just answered a request with a concrete end_time and left live
\* mode, while c2 is still in the live mode its connect set
C38_Witness ==
    LET conn == web.connections["c1"]
    IN  /\ conn.open
        /\ ~conn.live_mode_active
        /\ Len(conn.client) = 1
        /\ conn.client[1].message_type = "plot_data_update"
        /\ conn.client[1].plot_type = "historical_or_live_range"
        /\ conn.client[1].end = 5
        /\ ~conn.client[1].live_mode_active
        /\ web.connections["c2"].open
        /\ web.connections["c2"].live_mode_active

\* the plot_data_update messages sent to a browser in the step just taken
PlotResponses ==
    {u \in UNION {Range(web.connections[c].client) : c \in Connections} :
        u.message_type = "plot_data_update"}

\* C39: in every plot_data_update, end_time is 'live' exactly when
\* live_mode_active is true.
C39_EndTimeLiveIffLiveMode ==
    \A u \in PlotResponses : (u.end_time = LiveEnd) <=> u.live_mode_active

=============================================================================
